---------------------------- MODULE Spec2Model ----------------------------
(***************************************************************************)
(* rpi-image-gen, site/: the layer-and-variable pipeline.                  *)
(*                                                                         *)
(*   env_types.py      VariableResolver (policy table, trigger injection)  *)
(*   pipeline.py       _pipeline_main, _apply_layers                       *)
(*   layer_manager.py  LayerManager.get_build_order, check_dependencies    *)
(*   env_resolver.py   LazyEnvResolver (${VAR} / ${@ANCHOR} expansion)     *)
(*   metadata_parser.py  the header fields accepted, and their lint        *)
(*                                                                         *)
(* Nine specifications share the module:                                   *)
(*   Spec       the pipeline driver up to _apply_layers                    *)
(*   SpecOrder  the layer manager: build order and dependency checks       *)
(*   SpecEnv    the lazy resolver: resolve / resolve_all                   *)
(*   SpecMain   _pipeline_main from the env file to the output files       *)
(*   SpecLoad   LayerManager construction (load_layers), then a call       *)
(*   SpecFile   resolve_env_file, run on a file and then on its output     *)
(*   SpecSet    the lazy resolver under set() between resolve() calls      *)
(*   SpecLint   Metadata.lint_metadata_syntax on a layer file's header     *)
(*   SpecResolve  VariableResolver.resolve() on definitions with rules     *)
(* Each leaves the variables it does not use at their idle values.         *)
(***************************************************************************)
EXTENDS Integers, Sequences, FiniteSets, TLC

VARIABLES
    \* ---- pipeline driver (pipeline.py) and variable resolver (env_types.py)
    pc,                 \* position of _pipeline_main
    layers,             \* the build order: layers with their parsed variables
    env_file,           \* contents of --env-in as load_env_file returns them
    environ0,           \* os.environ when the pipeline starts
    environ,            \* os.environ
    assignments,        \* _pipeline_main's assignments (OrderedDict)
    env_entry,          \* os.environ at entry to _apply_layers
    pass1,              \* resolve(): result of the first _resolve_pass
    merged_defs,        \* resolve(): the definitions the final pass ran on
    resolved_variables, \* _apply_layers: what resolver.resolve returned
    applied,            \* _apply_layers: the values written (OrderedDict)
    args_order_out,     \* whether --order-out was given
    order_out,          \* the order-out file: whether written, and its lines
    reports,            \* the [FAIL] lines of _validate_resolved, in order
    failure,            \* "" while running, else the step that made the
                        \* pipeline exit non-zero
    \* ---- layer manager (layer_manager.py)
    lm_layers,          \* LayerManager.layers: name -> layer info
    load_errors,        \* LayerManager.load_errors
    target_layers,      \* the argument of the call
    lm_pc,              \* "idle" before the call, "returned" after it
    lm_call,            \* which method was called
    lm_result,          \* what the call returned or raised
    candidates,         \* load_layers: the files the search root holds
    doc_mode,           \* LayerManager.doc_mode
    tag_to_path,        \* LayerManager.tag_to_path: the tags of the roots
    file_pos,           \* load_layers: the file its loop is at
    layer_files,        \* LayerManager.layer_files: name -> file
    layer_tags,         \* LayerManager.layer_tags: name -> tag
    generator_runs,     \* the generator processes run, in order
    \* ---- lazy resolver (env_resolver.py)
    lr_assignments,     \* LazyEnvResolver.assignments (OrderedDict)
    external_context,   \* LazyEnvResolver.external_context
    anchors,            \* AnchorRegistry._anchors
    preserve_anchors,   \* LazyEnvResolver.preserve_anchors
    cache,              \* LazyEnvResolver._cache
    lr_pc,              \* "ready" once constructed, then "resolved" or "failed"
                        \* by resolve_all, "written" once the env file is out
    lr_call,            \* which method was called, and on what
    lr_result,          \* what the call returned or raised
    env_out,            \* the output env file: whether written, and its lines
    env_in,             \* resolve_env_file: the lines of the input env file
    anchor_in,          \* resolve_env_file: the "anchors" of the manifest read
    \* ---- metadata parser (metadata_parser.py)
    header,             \* the fields of a layer file's header, in file order
    lint_result         \* what lint_metadata_syntax returned for the header

pipeline_vars == <<pc, layers, env_file, environ0, environ, assignments,
                   env_entry, pass1, merged_defs, resolved_variables, applied,
                   args_order_out, order_out, reports, failure>>
loader_vars == <<candidates, doc_mode, tag_to_path, file_pos, layer_files,
                 layer_tags, generator_runs>>
manager_vars == <<lm_layers, load_errors, target_layers, lm_pc, lm_call, lm_result,
                  loader_vars>>
file_vars == <<env_in, anchor_in>>
resolver_vars == <<lr_assignments, external_context, anchors, preserve_anchors,
                   cache, lr_pc, lr_call, lr_result, env_out, file_vars>>
parser_vars == <<header, lint_result>>
vars == <<pipeline_vars, manager_vars, resolver_vars, parser_vars>>

-----------------------------------------------------------------------------
(***************************************************************************)
(* Python values.  A dict is a sequence of <<key, value>> pairs in         *)
(* insertion order, with no key twice.                                     *)
(***************************************************************************)
\* "key not in dict" / None, for a string-valued lookup
Unset == "<unset>"

\* the element of a singleton.  Only({e(x) : x \in {v}}) is e(v) with v
\* computed once, as an assignment to a local computes its right-hand side
\* once
Only(singleton) == CHOOSE x \in singleton : TRUE

Range(s) == {s[i] : i \in DOMAIN s}

DictKeys(d) == [i \in DOMAIN d |-> d[i][1]]

DictHas(d, k) == \E i \in DOMAIN d : d[i][1] = k

DictGet(d, k) == d[CHOOSE i \in DOMAIN d : d[i][1] = k][2]

\* d[k] = v: an existing key keeps its place
DictPut(d, k, v) ==
    IF DictHas(d, k)
    THEN [i \in DOMAIN d |-> IF d[i][1] = k THEN <<k, v>> ELSE d[i]]
    ELSE Append(d, <<k, v>>)

RECURSIVE ConcatAll(_)
ConcatAll(ss) == IF ss = <<>> THEN <<>> ELSE Head(ss) \o ConcatAll(Tail(ss))

\* keep the first occurrence of every element
RECURSIVE Dedup(_)
Dedup(s) ==
    IF s = <<>> THEN <<>>
    ELSE LET r == Dedup(SubSeq(s, 1, Len(s) - 1))
             x == s[Len(s)]
         IN  IF x \in Range(r) THEN r ELSE Append(r, x)

\* list.sort(key=...) / sorted(..., key=...) on <<item, key>> pairs: stable
RECURSIVE SortByKey(_)
SortByKey(s) ==
    IF s = <<>> THEN <<>>
    ELSE LET r == SortByKey(SubSeq(s, 1, Len(s) - 1))
             x == s[Len(s)]
             n == Cardinality({i \in DOMAIN r : r[i][2] <= x[2]})
         IN  SubSeq(r, 1, n) \o <<x>> \o SubSeq(r, n + 1, Len(r))

\* A text whose characters matter is a sequence of one-character strings.
Whitespace == {" "}

\* str.strip
RECURSIVE Strip(_)
Strip(text) ==
    IF text = <<>> THEN text
    ELSE IF Head(text) \in Whitespace THEN Strip(Tail(text))
    ELSE IF text[Len(text)] \in Whitespace THEN Strip(SubSeq(text, 1, Len(text) - 1))
    ELSE text

-----------------------------------------------------------------------------
(***************************************************************************)
(* env_types.py: TriggerRule, EnvVariable, VariableResolver.               *)
(* A position is kept in hundredths, so that a layer at build-order index  *)
(* p has position p * PosScale and `position + 0.01' is position + 1.      *)
(***************************************************************************)
PosScale == 100

\* TriggerRule.condition of an unconditional rule
NoCond == "<none>"

TRIGGER_DEFAULT_POLICY == "immediate"

Policies == {"force", "immediate", "lazy", "skip"}

TriggerRule(condition, target, value, policy) ==
    [condition |-> condition, action |-> "set", target |-> target,
     value |-> value, policy |-> policy]

EnvVariable(name, value, required, set_policy, source_layer, position, anchor_name, triggers, conflicts) ==
    [name |-> name, value |-> value, required |-> required,
     set_policy |-> set_policy, source_layer |-> source_layer,
     position |-> position, anchor_name |-> anchor_name,
     triggers |-> triggers, conflicts |-> conflicts]

\* the None that _resolve_single_variable returns
NoVariable == EnvVariable(Unset, Unset, FALSE, Unset, Unset, 0, Unset, <<>>, <<>>)

\* min(definitions, key=position): the first of the minimal ones
BuggyGetFirstByPosition(definitions) ==
    definitions[CHOOSE i \in DOMAIN definitions :
        /\ \A j \in DOMAIN definitions :
              definitions[j].position <= definitions[i].position
        /\ \A j \in 1..(i - 1) :
              definitions[j].position < definitions[i].position]

_get_first_by_position(definitions) ==
    definitions[CHOOSE i \in DOMAIN definitions :
        /\ \A j \in DOMAIN definitions :
              definitions[j].position >= definitions[i].position
        /\ \A j \in 1..(i - 1) :
              definitions[j].position > definitions[i].position]

\* max(definitions, key=position): the first of the maximal ones
BuggyGetLastByPosition(definitions) ==
    definitions[CHOOSE i \in DOMAIN definitions :
        /\ \A j \in DOMAIN definitions :
              definitions[j].position >= definitions[i].position
        /\ \A j \in 1..(i - 1) :
              definitions[j].position > definitions[i].position]

_get_last_by_position(definitions) ==
    definitions[CHOOSE i \in DOMAIN definitions :
        /\ \A j \in DOMAIN definitions :
              definitions[j].position <= definitions[i].position
        /\ \A j \in 1..(i - 1) :
              definitions[j].position < definitions[i].position]

WithPolicy(definitions, policy) ==
    SelectSeq(definitions, LAMBDA d : d.set_policy = policy)

\* env is os.environ: a function from names to values or Unset
_resolve_single_variable(var_name, definitions, env) ==
    LET force_defs     == WithPolicy(definitions, "force")
        immediate_defs == WithPolicy(definitions, "immediate")
        lazy_defs      == WithPolicy(definitions, "lazy")
        skip_defs      == WithPolicy(definitions, "skip")
    IN  IF force_defs # <<>> THEN _get_last_by_position(force_defs)
        ELSE IF immediate_defs # <<>> /\ env[var_name] = Unset
             THEN _get_first_by_position(immediate_defs)
        ELSE IF lazy_defs # <<>> /\ env[var_name] = Unset
             THEN _get_last_by_position(lazy_defs)
        ELSE IF skip_defs # <<>> THEN _get_last_by_position(skip_defs)
        ELSE NoVariable

\* the triggers of all definitions, deduplicated by
\* (condition, action, target, value, policy): the whole rule
MergedTriggers(definitions) ==
    Dedup(ConcatAll([i \in DOMAIN definitions |-> definitions[i].triggers]))

MergedConflicts(definitions) ==
    Dedup(ConcatAll([i \in DOMAIN definitions |-> definitions[i].conflicts]))

MinPosition(definitions) ==
    CHOOSE p \in {definitions[i].position : i \in DOMAIN definitions} :
        \A i \in DOMAIN definitions : definitions[i].position >= p

MaxPosition(definitions) ==
    CHOOSE p \in {definitions[i].position : i \in DOMAIN definitions} :
        \A i \in DOMAIN definitions : definitions[i].position <= p

\* the body of _resolve_pass's loop for one name: the entry of `resolved',
\* or NoVariable when the name gets none
ResolveEntry(var_name, definitions, env) ==
    LET resolved_var     == _resolve_single_variable(var_name, definitions, env)
        merged_triggers  == MergedTriggers(definitions)
        first_def        == definitions[1]
    IN  IF resolved_var # NoVariable
        THEN IF merged_triggers # <<>>
             THEN [resolved_var EXCEPT !.triggers = merged_triggers]
             ELSE resolved_var
        ELSE IF env[var_name] # Unset
        THEN EnvVariable(var_name, env[var_name], first_def.required,
                         "already_set", first_def.source_layer,
                         MaxPosition(definitions), first_def.anchor_name,
                         merged_triggers, MergedConflicts(definitions))
        ELSE NoVariable

\* variable_definitions and the result are dicts: name -> definitions,
\* name -> EnvVariable
_resolve_pass(variable_definitions, env) ==
    LET with_defs == SelectSeq(variable_definitions, LAMBDA e : e[2] # <<>>)
        \* all_vars.sort(key=earliest position)
        all_vars  == SortByKey([i \in DOMAIN with_defs |->
                        <<with_defs[i], MinPosition(with_defs[i][2])>>])
        entries   == [i \in DOMAIN all_vars |->
                        <<all_vars[i][1][1],
                          ResolveEntry(all_vars[i][1][1], all_vars[i][1][2], env)>>]
    IN  SelectSeq(entries, LAMBDA e : e[2] # NoVariable)

\* os.environ.get(env_var.name, env_var.value)
EffectiveValue(env_var, env) ==
    IF env[env_var.name] # Unset THEN env[env_var.name] ELSE env_var.value

\* the rules of env_var that pass `rule.condition is not None and
\* effective_value != rule.condition: continue'.  Every rule the parser
\* builds has action "set" (ACTION_PARSERS has no other), so the raise for
\* another action cannot happen.
BuggyFiringRules(env_var, env) ==
    SelectSeq(env_var.triggers, LAMBDA rule : rule.condition = NoCond)

FiringRules(env_var, env) ==
    SelectSeq(env_var.triggers,
              LAMBDA rule : \/ rule.condition = NoCond
                            \/ EffectiveValue(env_var, env) = rule.condition)

\* an injected definition placed at the position of its source
InjectedAtSource(env_var, rule, resolved) ==
    EnvVariable(rule.target, rule.value, FALSE,
                IF rule.policy = "" THEN TRIGGER_DEFAULT_POLICY ELSE rule.policy,
                IF env_var.source_layer = "" THEN "trigger" ELSE env_var.source_layer,
                env_var.position, Unset, <<>>, <<>>)

\* the EnvVariable that _collect_trigger_definitions builds for one rule
Injected(env_var, rule, resolved) ==
    LET has_template    == DictHas(resolved, rule.target)
        target_template == IF has_template THEN DictGet(resolved, rule.target)
                           ELSE NoVariable
    IN  EnvVariable(rule.target, rule.value,
                    IF has_template THEN target_template.required ELSE FALSE,
                    IF rule.policy = "" THEN TRIGGER_DEFAULT_POLICY ELSE rule.policy,
                    IF env_var.source_layer = "" THEN "trigger"
                    ELSE env_var.source_layer,
                    env_var.position + 1,
                    IF has_template THEN target_template.anchor_name ELSE Unset,
                    <<>>, <<>>)

\* a dict: target name -> injected definitions, in the order of `resolved'
\* and, for one variable, of its rules
_collect_trigger_definitions(resolved, env) ==
    LET per_var == [i \in DOMAIN resolved |->
                      LET env_var == resolved[i][2]
                          rules   == FiringRules(env_var, env)
                      IN  [j \in DOMAIN rules |->
                              Injected(env_var, rules[j], resolved)]]
        injected == ConcatAll(per_var)
        targets  == Dedup([i \in DOMAIN injected |-> injected[i].name])
    IN  [i \in DOMAIN targets |->
            <<targets[i],
              SelectSeq(injected, LAMBDA d : d.name = targets[i])>>]

\* merged_defs.setdefault(name, []).extend(defs) for every trigger target
RECURSIVE ExtendDefinitions(_, _)
ExtendDefinitions(variable_definitions, trigger_defs) ==
    IF trigger_defs = <<>> THEN variable_definitions
    ELSE LET name == Head(trigger_defs)[1]
             defs == Head(trigger_defs)[2]
             old  == IF DictHas(variable_definitions, name)
                     THEN DictGet(variable_definitions, name) ELSE <<>>
         IN  ExtendDefinitions(DictPut(variable_definitions, name, old \o defs),
                               Tail(trigger_defs))

\* the definitions that the last _resolve_pass of resolve() runs on
MergedDefinitions(variable_definitions, env) ==
    ExtendDefinitions(variable_definitions,
        _collect_trigger_definitions(_resolve_pass(variable_definitions, env), env))

BuggyResolve(variable_definitions, env) ==
    _resolve_pass(variable_definitions, env)

\* resolve() with a second round: the triggers of the second pass's result
\* are collected and injected as well
CascadingResolve(variable_definitions, env) ==
    LET merged == MergedDefinitions(variable_definitions, env)
    IN  _resolve_pass(MergedDefinitions(merged, env), env)

VariableResolver_resolve(variable_definitions, env) ==
    LET resolved     == _resolve_pass(variable_definitions, env)
        trigger_defs == _collect_trigger_definitions(resolved, env)
    IN  IF trigger_defs = <<>> THEN resolved
        ELSE _resolve_pass(ExtendDefinitions(variable_definitions, trigger_defs), env)

-----------------------------------------------------------------------------
(***************************************************************************)
(* pipeline.py.  `build' is the build order: a sequence of layers          *)
(* [name, vars], vars being the layer's container.variables in order.      *)
(***************************************************************************)
_collect_variable_definitions(build) ==
    LET per_layer == [i \in DOMAIN build |->
                        [j \in DOMAIN build[i].vars |->
                            [build[i].vars[j] EXCEPT
                                !.source_layer = build[i].name,
                                !.position = (i - 1) * PosScale]]]
        all       == ConcatAll(per_layer)
        names     == Dedup([i \in DOMAIN all |-> all[i].name])
    IN  [i \in DOMAIN names |->
            <<names[i], SelectSeq(all, LAMBDA d : d.name = names[i])>>]

\* the loop of _apply_layers over ordered_vars: [env, applied]
RECURSIVE ApplyVars(_, _, _)
ApplyVars(ordered_vars, env, done) ==
    IF ordered_vars = <<>> THEN [env |-> env, applied |-> done]
    ELSE LET env_var  == Head(ordered_vars)
             var_name == env_var.name
             value    == env_var.value
             policy   == env_var.set_policy
             writes   == \/ policy = "force"
                         \/ policy \in {"immediate", "lazy"} /\ env[var_name] = Unset
         IN  IF writes
             THEN ApplyVars(Tail(ordered_vars),
                            [env EXCEPT ![var_name] = value],
                            DictPut(done, var_name, value))
             ELSE ApplyVars(Tail(ordered_vars), env, done)

_apply_layers(build, env) ==
    LET variable_definitions == _collect_variable_definitions(build)
        resolved  == VariableResolver_resolve(variable_definitions, env)
        by_pos    == SortByKey([i \in DOMAIN resolved |->
                                  <<resolved[i][2], resolved[i][2].position>>])
        ordered_vars == [i \in DOMAIN by_pos |-> by_pos[i][1]]
        out       == ApplyVars(ordered_vars, env, <<>>)
    IN  [env |-> out.env, applied |-> out.applied, resolved |-> resolved]

\* one turn of _pipeline_main's loop over load_env_file's result
BuggySeedOne(key, value, env, assigned) ==
    [env |-> [env EXCEPT ![key] = value], assignments |-> assigned]

SeedOne(key, value, env, assigned) ==
    IF env[key] # Unset
    THEN [env |-> env, assignments |-> DictPut(assigned, key, env[key])]
    ELSE [env |-> [env EXCEPT ![key] = value], assignments |-> assigned]

\* the whole loop: [env, assignments]
RECURSIVE SeedEnvironment(_, _, _)
SeedEnvironment(items, env, assigned) ==
    IF items = <<>> THEN [env |-> env, assignments |-> assigned]
    ELSE LET one == SeedOne(Head(items)[1], Head(items)[2], env, assigned)
         IN  SeedEnvironment(Tail(items), one.env, one.assignments)

\* an overwritten key moves behind the keys already there
BuggyMergeApplied(assigned, values) ==
    SelectSeq(assigned, LAMBDA e : ~DictHas(values, e[1])) \o values

\* `for var_name, value in applied_values.items(): assignments[var_name] = value'
RECURSIVE MergeApplied(_, _)
MergeApplied(assigned, values) ==
    IF values = <<>> THEN assigned
    ELSE MergeApplied(DictPut(assigned, Head(values)[1], Head(values)[2]),
                      Tail(values))

\* Metadata.validate_env_vars / _validate_defined_variables on a layer whose
\* header passes the schema and declares no validator: the status recorded
\* for one definition
ValidationStatus(env_var, env) ==
    IF /\ env_var.set_policy = "lazy"
       /\ env[env_var.name] # Unset
       /\ env[env_var.name] # env_var.value
    THEN "lazy_overridden"
    ELSE IF env_var.required /\ env[env_var.name] = Unset THEN "missing_required"
    ELSE IF env[env_var.name] # Unset THEN "no_validation"
    ELSE "optional_unset"

\* the definitions validated: the layer's own resolution, the layer's
\* variables that did not resolve, then the trigger definitions; a name's
\* result is that of its first definition (`if var_name not in results')
_validate_defined_variables(layer, env) ==
    Only({ Only({ Only({ Only({
        [i \in DOMAIN names |->
            <<names[i],
              ValidationStatus(
                  all_vars[CHOOSE k \in DOMAIN all_vars :
                              /\ all_vars[k].name = names[i]
                              /\ \A m \in 1..(k - 1) : all_vars[m].name # names[i]],
                  env)>>]
        : names \in {Dedup([i \in DOMAIN all_vars |-> all_vars[i].name])} })
        : all_vars \in
            {[i \in DOMAIN resolved |-> resolved[i][2]]
                 \o SelectSeq(layer.vars, LAMBDA v : ~DictHas(resolved, v.name))
                 \o ConcatAll([i \in DOMAIN trigger_defs |-> trigger_defs[i][2]])} })
        : trigger_defs \in {_collect_trigger_definitions(resolved, env)} })
        : resolved \in
            {VariableResolver_resolve(
                 [j \in DOMAIN layer.vars |-> <<layer.vars[j].name, <<layer.vars[j]>>>>],
                 env)} })

\* LayerManager.validate_layer on a layer of the build order
validate_layer(layer, env, ignore_missing_required) ==
    \A result \in Range(_validate_defined_variables(layer, env)) :
        result[2] = "missing_required" => ignore_missing_required

\* pipeline._validate_layers: validate_layer(layer_name, silent=False)
_validate_layers(build, env) ==
    \A i \in DOMAIN build : validate_layer(build[i], env, FALSE)

\* The strings whose characters the pipeline looks at (conflict specs, the
\* names and values they hold, anchor names, values with references), each
\* with its characters
CharTable ==
    { <<"", <<>>>>,
      <<"A", <<"A">>>>, <<"B", <<"B">>>>, <<"C", <<"C">>>>, <<"U", <<"U">>>>,
      <<"IGROOT", <<"I", "G", "R", "O", "O", "T">>>>,
      <<"SRCROOT", <<"S", "R", "C", "R", "O", "O", "T">>>>,
      <<"0", <<"0">>>>, <<"1", <<"1">>>>, <<"2", <<"2">>>>, <<"7", <<"7">>>>,
      <<"v", <<"v">>>>, <<"w", <<"w">>>>,
      <<"${U}", <<"$", "{", "U", "}">>>>,
      <<"${B}", <<"$", "{", "B", "}">>>>,
      <<"${@r}", <<"$", "{", "@", "r", "}">>>>,
      <<"${@IGROOT}", <<"$", "{", "@", "I", "G", "R", "O", "O", "T", "}">>>>,
      <<"@r", <<"@", "r">>>>, <<"@R", <<"@", "R">>>>,
      <<"@IGROOT", <<"@", "I", "G", "R", "O", "O", "T">>>>,
      <<"@SRCROOT", <<"@", "S", "R", "C", "R", "O", "O", "T">>>>,
      <<"B=7", <<"B", "=", "7">>>>,
      <<"B!=0", <<"B", "!", "=", "0">>>>,
      <<"when=1 B!=0", <<"w", "h", "e", "n", "=", "1", " ", "B", "!", "=", "0">>>>,
      <<"when=2 B", <<"w", "h", "e", "n", "=", "2", " ", "B">>>>,
      <<"when=1 B", <<"w", "h", "e", "n", "=", "1", " ", "B">>>>,
      <<"when=2 B=7", <<"w", "h", "e", "n", "=", "2", " ", "B", "=", "7">>>>,
      <<"mode", <<"m", "o", "d", "e">>>>,
      <<"on", <<"o", "n">>>>,
      <<"mode=on", <<"m", "o", "d", "e", "=", "o", "n">>>> }

Chars(string) == (CHOOSE e \in CharTable : e[1] = string)[2]

\* the string of a text; a text of no string of the table is no name and no
\* value of the run
Str(text) ==
    IF \E e \in CharTable : e[2] = text
    THEN (CHOOSE e \in CharTable : e[2] = text)[1]
    ELSE Unset

\* text.find(pattern) + 1: 0 when the pattern is not in the text
Find(text, pattern) ==
    LET at == {i \in 1..(Len(text) - Len(pattern) + 1) :
                  SubSeq(text, i, i + Len(pattern) - 1) = pattern}
    IN  IF at = {} THEN 0 ELSE CHOOSE i \in at : \A j \in at : i <= j

NoSpec == [name |-> <<>>, op |-> "", value |-> <<>>, when |-> <<>>]

\* _parse_conflict_spec from `if "!=" in spec' on
ParseComparison(spec, when_value) ==
    LET ne == Find(spec, <<"!", "=">>)
        eq == Find(spec, <<"=">>)
        at == IF ne # 0 THEN ne ELSE eq
        name  == Strip(SubSeq(spec, 1, at - 1))
        value == Strip(SubSeq(spec, at + (IF ne # 0 THEN 2 ELSE 1), Len(spec)))
    IN  IF at = 0
        THEN [name |-> spec, op |-> "", value |-> <<>>, when |-> when_value]
        ELSE IF name = <<>> \/ value = <<>> THEN NoSpec
        ELSE [name |-> name, op |-> IF ne # 0 THEN "!=" ELSE "=",
              value |-> value, when |-> when_value]

\* (name, op, value, when_value) of a conflict spec, <<>> and "" standing
\* for None
_parse_conflict_spec(string) ==
    LET spec  == Strip(Chars(string))
        space == Find(spec, <<" ">>)
        when_value == Strip(SubSeq(spec, 6, space - 1))
        rest  == Strip(SubSeq(spec, space + 1, Len(spec)))
    IN  IF spec = <<>> THEN NoSpec
        ELSE IF Len(spec) >= 5 /\ SubSeq(spec, 1, 5) = <<"w", "h", "e", "n", "=">>
        THEN IF space = 0 \/ when_value = <<>> \/ rest = <<>> THEN NoSpec
             ELSE ParseComparison(rest, when_value)
        ELSE ParseComparison(spec, <<>>)

\* os.environ.get(name)
Current(env, name) == IF name \in DOMAIN env THEN env[name] ELSE Unset

_is_var_effectively_set(env_var, current) ==
    IF env_var.set_policy = "skip" THEN current \notin {Unset, ""}
    ELSE (IF current # Unset THEN current ELSE env_var.value) \notin {Unset, ""}

_effective_var_value(env_var, current) ==
    IF current # Unset THEN current ELSE env_var.value

\* sorted() on the names of the runs
NameOrder == <<"A", "B", "C", "IGROOT", "SRCROOT", "mode", "port">>

\* _validate_resolved, first loop: the definition that wins for each name
\* with the name taken out of os.environ, in sorted order of the names
Selected(build, env) ==
    Only({ Only({
        SelectSeq([i \in DOMAIN sorted |->
                      <<sorted[i],
                        _resolve_single_variable(sorted[i],
                            DictGet(variable_definitions, sorted[i]),
                            [env EXCEPT ![sorted[i]] = Unset])>>],
                  LAMBDA e : e[2] # NoVariable)
        : sorted \in {SelectSeq(NameOrder,
                                LAMBDA n : DictHas(variable_definitions, n))} })
        : variable_definitions \in {_collect_variable_definitions(build)} })

\* the [FAIL] lines of the first loop
RequiredReports(selected, env) ==
    LET failing == SelectSeq(selected,
                       LAMBDA e : e[2].required /\ env[e[2].name] \in {Unset, ""})
    IN  [i \in DOMAIN failing |-> [kind |-> "required", var |-> failing[i][1]]]

\* the conflict specs in the order the last loop meets them, as
\* <<var_name, env_var, conflict>>
ConflictItems(selected) ==
    ConcatAll([i \in DOMAIN selected |->
                  [j \in DOMAIN selected[i][2].conflicts |->
                      <<selected[i][1], selected[i][2], selected[i][2].conflicts[j]>>]])

\* the pairs that have a conflict with no comparator and no when=
UnconditionalPairs(selected) ==
    {{item[1], Str(_parse_conflict_spec(item[3]).name)} :
        item \in {it \in Range(ConflictItems(selected)) :
                    LET spec == _parse_conflict_spec(it[3])
                    IN  spec.name # <<>> /\ spec.op = "" /\ spec.when = <<>>}}

\* the last loop of _validate_resolved from item k on: [seen, reports]
RECURSIVE CheckConflicts(_, _, _, _, _, _)
CheckConflicts(items, k, selected, env, seen_pairs, found) ==
    IF k > Len(items) THEN found
    ELSE LET var_name == items[k][1]
             env_var  == items[k][2]
             conflict == items[k][3]
             current  == Current(env, var_name)
             this_value == _effective_var_value(env_var, current)
             c        == _parse_conflict_spec(conflict)
             other    == Str(c.name)
             pair     == {var_name, conflict}
             skipped  == \/ ~_is_var_effectively_set(env_var, current)
                         \/ c.name = <<>>
                         \/ ~DictHas(selected, other)
                         \/ c.when # <<>> /\ this_value # Str(c.when)
                         \/ c.op # "" /\ {var_name, other} \in UnconditionalPairs(selected)
                         \/ pair \in seen_pairs
             conflict_var == DictGet(selected, other)
             conflict_current == Current(env, other)
             target   == _effective_var_value(conflict_var, conflict_current)
             passes   == \/ ~_is_var_effectively_set(conflict_var, conflict_current)
                         \/ c.op = "=" /\ target # Str(c.value)
                         \/ c.op = "!=" /\ target = Str(c.value)
         IN  IF skipped
             THEN CheckConflicts(items, k + 1, selected, env, seen_pairs, found)
             ELSE IF passes
             THEN CheckConflicts(items, k + 1, selected, env,
                                 seen_pairs \cup {pair}, found)
             ELSE CheckConflicts(items, k + 1, selected, env,
                                 seen_pairs \cup {pair},
                                 Append(found,
                                        [kind |-> "conflict", var |-> var_name,
                                         value |-> this_value, other |-> other,
                                         other_value |-> target]))

\* [ok, reports]
_validate_resolved(build, env) ==
    Only({ Only({ Only({
        [ok |-> lines = <<>>, reports |-> lines]
        : lines \in {RequiredReports(selected, env)
                        \o CheckConflicts(items, 1, selected, env, {}, <<>>)} })
        : items \in {ConflictItems(selected)} })
        : selected \in {Selected(build, env)} })

-----------------------------------------------------------------------------
(***************************************************************************)
(* The pipeline's inputs.  The build order has one layer per entry of      *)
(* LayerNames; a layer declares each of VarNames at most once, in that     *)
(* order.  A definition's value and conflicts are fixed by its layer; its  *)
(* policy is free.  A definition of "mode" may carry the run's trigger     *)
(* rule, which sets "port".                                                *)
(***************************************************************************)
LayerNames == <<"base", "net", "app">>

VarNames == <<"mode", "port">>

EnvNames == Range(VarNames)

\* at most this many variable definitions in the build order
MaxDefs == 2

DefaultValue(name, p) ==
    IF name = "mode" THEN (IF p % 2 = 1 THEN "on" ELSE "off")
    ELSE IF p = 1 THEN "1" ELSE IF p = 2 THEN "2" ELSE "3"

DeclaredConflicts(name, p) ==
    IF name = "port" THEN (IF p = 2 THEN <<"mode=on">> ELSE <<"mode">>)
    ELSE <<>>

TriggerRules ==
    {TriggerRule(c, "port", "9000", p) : c \in {NoCond, "on", "off"}, p \in Policies}

Slots == {<<p, n>> : p \in DOMAIN LayerNames, n \in Range(VarNames)}

\* the layer at index p of the build order, as metadata parsing leaves it
\* (source_layer and position are set when definitions are collected)
ParsedLayer(p, declared, policy, triggering, rule) ==
    LET names == SelectSeq(VarNames, LAMBDA n : <<p, n>> \in declared)
    IN  [name |-> LayerNames[p],
         vars |-> [j \in DOMAIN names |->
                     EnvVariable(names[j], DefaultValue(names[j], p), FALSE,
                                 policy[<<p, names[j]>>], "", 0, Unset,
                                 IF <<p, names[j]>> \in triggering
                                 THEN <<rule>> ELSE <<>>,
                                 DeclaredConflicts(names[j], p))]]

EnvFiles ==
    {<<>>, <<(<<"mode", "off">>), (<<"port", "8080">>)>>}

Environments ==
    {[n \in EnvNames |-> IF n \in set THEN (IF n = "mode" THEN "on" ELSE "80")
                                      ELSE Unset] : set \in SUBSET EnvNames}

PipelineIdle ==
    /\ pc = "idle"
    /\ layers = <<>>
    /\ env_file = <<>>
    /\ environ0 = <<>>
    /\ environ = <<>>
    /\ assignments = <<>>
    /\ env_entry = <<>>
    /\ pass1 = <<>>
    /\ merged_defs = <<>>
    /\ resolved_variables = <<>>
    /\ applied = <<>>
    /\ args_order_out = FALSE
    /\ order_out = [written |-> FALSE, lines |-> <<>>]
    /\ reports = <<>>
    /\ failure = ""

LoaderIdle ==
    /\ candidates = <<>>
    /\ doc_mode = FALSE
    /\ tag_to_path = {}
    /\ file_pos = 0
    /\ layer_files = <<>>
    /\ layer_tags = <<>>
    /\ generator_runs = <<>>

ManagerIdle ==
    /\ LoaderIdle
    /\ lm_layers = <<>>
    /\ load_errors = <<>>
    /\ target_layers = <<>>
    /\ lm_pc = "idle"
    /\ lm_call = <<>>
    /\ lm_result = <<>>

FileIdle ==
    /\ env_in = <<>>
    /\ anchor_in = <<>>

ResolverIdle ==
    /\ lr_assignments = <<>>
    /\ external_context = <<>>
    /\ anchors = <<>>
    /\ preserve_anchors = FALSE
    /\ cache = <<>>
    /\ lr_pc = "idle"
    /\ lr_call = <<>>
    /\ lr_result = <<>>
    /\ env_out = [written |-> FALSE, lines |-> <<>>]
    /\ FileIdle

ParserIdle ==
    /\ header = <<>>
    /\ lint_result = [linted |-> FALSE, results |-> {}]

Init ==
    /\ pc = "load_env"
    /\ \E declared \in {S \in SUBSET Slots : Cardinality(S) <= MaxDefs} :
       \E policy \in [declared -> Policies] :
       \E triggering \in SUBSET {s \in declared : s[2] = "mode"} :
       \E rule \in (IF triggering = {} THEN {TriggerRule(NoCond, "port", "9000", "immediate")}
                     ELSE TriggerRules) :
          layers = [p \in DOMAIN LayerNames |->
                      ParsedLayer(p, declared, policy, triggering, rule)]
    /\ env_file \in EnvFiles
    /\ environ0 \in Environments
    /\ environ = environ0
    /\ assignments = <<>>
    /\ env_entry = <<>>
    /\ pass1 = <<>>
    /\ merged_defs = <<>>
    /\ resolved_variables = <<>>
    /\ applied = <<>>
    /\ args_order_out = FALSE
    /\ order_out = [written |-> FALSE, lines |-> <<>>]
    /\ reports = <<>>
    /\ failure = ""
    /\ ManagerIdle
    /\ ResolverIdle
    /\ ParserIdle

\* _pipeline_main, lines 47-56: load the env file and seed os.environ
SeedEnv ==
    /\ pc = "load_env"
    /\ \E seeded \in {SeedEnvironment(env_file, environ, env_file)} :
          /\ environ' = seeded.env
          /\ assignments' = seeded.assignments
    /\ pc' = "validate_layers"
    /\ UNCHANGED <<layers, env_file, environ0, env_entry, pass1, merged_defs,
                   resolved_variables, applied, args_order_out, order_out,
                   reports, failure>>
    /\ UNCHANGED <<manager_vars, resolver_vars, parser_vars>>

\* _pipeline_main, lines 81-82: _validate_layers on the build order, and
\* SystemExit(1) when it returns False
ValidateLayers ==
    /\ pc = "validate_layers"
    /\ IF _validate_layers(layers, environ)
       THEN pc' = "apply_layers" /\ failure' = failure
       ELSE pc' = "exit" /\ failure' = "validate_layers"
    /\ UNCHANGED <<layers, env_file, environ0, environ, assignments, env_entry,
                   pass1, merged_defs, resolved_variables, applied,
                   args_order_out, order_out, reports>>
    /\ UNCHANGED <<manager_vars, resolver_vars, parser_vars>>

\* _pipeline_main, lines 84-86: _apply_layers, then the applied values go
\* into assignments
ApplyLayers ==
    /\ pc = "apply_layers"
    /\ \E out \in {_apply_layers(layers, environ)} :
          /\ resolved_variables' = out.resolved
          /\ environ' = out.env
          /\ applied' = out.applied
          /\ assignments' = MergeApplied(assignments, out.applied)
    /\ env_entry' = environ
    /\ pass1' = _resolve_pass(_collect_variable_definitions(layers), environ)
    /\ merged_defs' = MergedDefinitions(_collect_variable_definitions(layers), environ)
    /\ pc' = "validate_resolved"
    /\ UNCHANGED <<layers, env_file, environ0, args_order_out, order_out,
                   reports, failure>>
    /\ UNCHANGED <<manager_vars, resolver_vars, parser_vars>>

Next ==
    \/ SeedEnv
    \/ ValidateLayers
    \/ ApplyLayers

Spec == Init /\ [][Next]_vars

-----------------------------------------------------------------------------
(***************************************************************************)
(* Properties of the variable resolver and of _apply_layers, stated on the *)
(* pipeline after _apply_layers returned.                                  *)
(***************************************************************************)
Applied == pc = "validate_resolved"

DefsOf(definitions, name) ==
    IF DictHas(definitions, name) THEN DictGet(definitions, name) ELSE <<>>

HasPolicy(definitions, policy) ==
    \E i \in DOMAIN definitions : definitions[i].set_policy = policy

\* the layer at 1-based index p declares `name' with this policy
Declares(p, name, policy) ==
    \E j \in DOMAIN layers[p].vars :
        /\ layers[p].vars[j].name = name
        /\ layers[p].vars[j].set_policy = policy

DeclaresNot(p, name) ==
    \A j \in DOMAIN layers[p].vars : layers[p].vars[j].name # name

\* the selected variable is the definition d (its triggers are the merged ones)
Selects(selected, d) ==
    /\ selected.value = d.value
    /\ selected.set_policy = d.set_policy
    /\ selected.position = d.position
    /\ selected.source_layer = d.source_layer
    /\ selected.conflicts = d.conflicts

\* C1: a name with a force definition resolves to the force definition with
\* the greatest position, whether or not the name is in the environment,
\* and after _apply_layers the environment holds that definition's value.
C1_ForceLatestWins ==
    Applied =>
        \A n \in EnvNames :
            LET defs == DefsOf(merged_defs, n)
            IN  HasPolicy(defs, "force") =>
                /\ DictHas(resolved_variables, n)
                /\ LET selected == DictGet(resolved_variables, n)
                   IN  /\ selected.set_policy = "force"
                       /\ \E i \in DOMAIN defs : Selects(selected, defs[i])
                       /\ \A i \in DOMAIN defs :
                              defs[i].set_policy = "force"
                                  => defs[i].position <= selected.position
                       /\ environ[n] = selected.value
                       /\ DictHas(applied, n)
                       /\ DictGet(applied, n) = selected.value

\* scenario S1 with the name already in the environment: base declares
\* port=1 immediate, net declares port=2 force, the environment held 80
C1_Witness ==
    /\ Applied
    /\ Declares(1, "port", "immediate")
    /\ Declares(2, "port", "force")
    /\ env_entry["port"] = "80"
    /\ environ["port"] = "2"

\* C2: a name that is not in the environment and has no force definition
\* resolves to the immediate definition with the smallest position if there
\* is an immediate one, else to the lazy definition with the greatest
\* position if there is a lazy one.
C2_ImmediateFirstLazyLast ==
    Applied =>
        \A n \in EnvNames :
            LET defs == DefsOf(merged_defs, n)
            IN  (env_entry[n] = Unset /\ ~HasPolicy(defs, "force")) =>
                /\ HasPolicy(defs, "immediate") =>
                    /\ DictHas(resolved_variables, n)
                    /\ LET selected == DictGet(resolved_variables, n)
                       IN  /\ selected.set_policy = "immediate"
                           /\ \E i \in DOMAIN defs : Selects(selected, defs[i])
                           /\ \A i \in DOMAIN defs :
                                  defs[i].set_policy = "immediate"
                                      => defs[i].position >= selected.position
                /\ (~HasPolicy(defs, "immediate") /\ HasPolicy(defs, "lazy")) =>
                    /\ DictHas(resolved_variables, n)
                    /\ LET selected == DictGet(resolved_variables, n)
                       IN  /\ selected.set_policy = "lazy"
                           /\ \E i \in DOMAIN defs : Selects(selected, defs[i])
                           /\ \A i \in DOMAIN defs :
                                  defs[i].set_policy = "lazy"
                                      => defs[i].position <= selected.position

\* a lazy definition in an earlier layer, an immediate one in a later layer:
\* the immediate one is selected
C2_Witness ==
    /\ Applied
    /\ Declares(1, "port", "lazy")
    /\ Declares(3, "port", "immediate")
    /\ env_entry["port"] = Unset
    /\ DictHas(resolved_variables, "port")
    /\ DictGet(resolved_variables, "port").set_policy = "immediate"
    /\ DictGet(resolved_variables, "port").value = "3"

\* C3: for a name that is in the environment and has no force definition,
\* Pass 1 yields a synthesized already_set definition (the environment's
\* value, the maximum position, triggers and conflicts merged from all
\* definitions); the latest skip definition is selected instead only when
\* every definition of the name has policy skip.
C3_AlreadySetUnlessOnlySkip ==
    Applied =>
        \A n \in EnvNames :
            LET defs == DefsOf(_collect_variable_definitions(layers), n)
            IN  (defs # <<>> /\ env_entry[n] # Unset /\ ~HasPolicy(defs, "force")) =>
                /\ DictHas(pass1, n)
                /\ LET selected == DictGet(pass1, n)
                   IN  IF \A i \in DOMAIN defs : defs[i].set_policy = "skip"
                       THEN /\ selected.set_policy = "skip"
                            /\ selected.position = MaxPosition(defs)
                       ELSE /\ selected.set_policy = "already_set"
                            /\ selected.value = env_entry[n]
                            /\ selected.position = MaxPosition(defs)
                            /\ selected.triggers = MergedTriggers(defs)
                            /\ selected.conflicts = MergedConflicts(defs)

\* C4: a name that is in the environment when the pipeline starts and has no
\* force definition (declared or injected) keeps its value through env
\* seeding and _apply_layers, and if the env file names it, assignments
\* carries the environment's value.
C4_PreexistingValueKept ==
    \A n \in EnvNames :
        environ0[n] # Unset =>
            /\ pc \in {"load_env", "apply_layers"} => environ[n] = environ0[n]
            /\ (pc = "apply_layers" /\ DictHas(env_file, n)) =>
                   /\ DictHas(assignments, n)
                   /\ DictGet(assignments, n) = environ0[n]
            /\ (Applied /\ ~HasPolicy(DefsOf(merged_defs, n), "force")) =>
                   /\ environ[n] = environ0[n]
                   /\ DictHas(env_file, n) =>
                          /\ DictHas(assignments, n)
                          /\ DictGet(assignments, n) = environ0[n]

\* port is 80 in the environment and 8080 in the env file, and a layer
\* declares a default for it
C4_Witness ==
    /\ Applied
    /\ environ0["port"] = "80"
    /\ DictHas(env_file, "port")
    /\ Declares(1, "port", "immediate")
    /\ ~HasPolicy(DefsOf(merged_defs, "port"), "force")
    /\ environ["port"] = "80"
    /\ DictGet(assignments, "port") = "80"

\* every rule that a definition of a variable declares and whose condition
\* the variable's effective value meets has a synthesized definition of
\* its target among the definitions that the final pass resolved
TriggersInjected ==
    \A e \in Range(_collect_variable_definitions(layers)) :
    \A d \in Range(e[2]) :
    \A rule \in Range(d.triggers) :
        LET effective == IF env_entry[e[1]] # Unset THEN env_entry[e[1]]
                         ELSE DictGet(pass1, e[1]).value
        IN  (rule.condition = NoCond \/ effective = rule.condition) =>
                \E inj \in Range(DefsOf(merged_defs, rule.target)) :
                    /\ inj.value = rule.value
                    /\ inj.set_policy = rule.policy
                    /\ inj.position = DictGet(pass1, e[1]).position + 1
                    /\ inj.triggers = <<>>

\* the case of scenario S2: the source's value comes from the environment,
\* its rule fires, and the target has no other definition and is not in
\* the environment
EnvSourcedTrigger(rule) ==
    /\ DictHas(pass1, "mode")
    /\ DictGet(pass1, "mode").set_policy = "already_set"
    /\ rule \in Range(DictGet(pass1, "mode").triggers)
    /\ rule.condition = NoCond \/ rule.condition = env_entry["mode"]
    /\ Len(DefsOf(merged_defs, rule.target)) = 1
    /\ env_entry[rule.target] = Unset

\* C5 as stated: a firing trigger adds a synthesized definition for its
\* target, and in the case of scenario S2 the target resolves to the
\* trigger's value and is written to the environment.
C5_TriggerTargetWritten ==
    Applied =>
        /\ TriggersInjected
        /\ \A rule \in TriggerRules :
               EnvSourcedTrigger(rule) =>
                   /\ DictHas(resolved_variables, rule.target)
                   /\ DictGet(resolved_variables, rule.target).value = rule.value
                   /\ environ[rule.target] = rule.value

\* C5, amended: a firing trigger adds a synthesized definition for its
\* target, and in the case of scenario S2 the target resolves to the
\* trigger's value with the trigger's policy; it is written to the
\* environment unless that policy is skip, and then the environment is
\* left without the target.
C5_TriggerTargetWrittenUnlessSkip ==
    Applied =>
        /\ TriggersInjected
        /\ \A rule \in TriggerRules :
               EnvSourcedTrigger(rule) =>
                   /\ DictHas(resolved_variables, rule.target)
                   /\ DictGet(resolved_variables, rule.target).value = rule.value
                   /\ DictGet(resolved_variables, rule.target).set_policy = rule.policy
                   /\ environ[rule.target] =
                          IF rule.policy = "skip" THEN Unset ELSE rule.value

\* scenario S2: mode defaults to off with `when=on set port=9000', the
\* environment has mode=on, no layer declares port
C5_Witness ==
    /\ Applied
    /\ Declares(2, "mode", "immediate")
    /\ \A p \in DOMAIN layers : DeclaresNot(p, "port")
    /\ EnvSourcedTrigger(TriggerRule("on", "port", "9000", "immediate"))
    /\ env_entry["mode"] = "on"
    /\ environ["port"] = "9000"

-----------------------------------------------------------------------------
(***************************************************************************)
(* layer_manager.py.  `loaded' is LayerManager.layers: a function from the *)
(* names of the loaded layers to their get_layer_info().  `errors' is      *)
(* LayerManager.load_errors: a function from names to the captured reason. *)
(* A call returns [raises, error, detail, value]: raises is "" when the    *)
(* call returned `value', else the exception's type.                       *)
(***************************************************************************)
Returned(value) ==
    [raises |-> "", error |-> "", detail |-> <<>>, value |-> value]

Raised(type, error, detail) ==
    [raises |-> type, error |-> error, detail |-> detail, value |-> <<>>]

\* the interpreter's recursion limit, in frames of add_layer_and_deps
RecursionLimit == 6

BuggyGetDependencies(loaded, layer_name) ==
    IF layer_name \notin DOMAIN loaded THEN <<>>
    ELSE LET depends == loaded[layer_name].depends
         IN  [i \in DOMAIN depends |-> depends[Len(depends) + 1 - i]]

get_dependencies(loaded, layer_name) ==
    IF layer_name \notin DOMAIN loaded THEN <<>>
    ELSE loaded[layer_name].depends

\* EnvLayer.to_dict: "optional_depends": []
get_optional_dependencies(loaded, layer_name) == <<>>

\* get_build_order.check_missing_dependencies: [checked, raised], raised
\* being <<>> or <<the ValueError>>
RECURSIVE check_missing_dependencies(_, _, _, _)
RECURSIVE CheckMissingEach(_, _, _, _)
check_missing_dependencies(loaded, errors, layer_name, checked) ==
    IF layer_name \in checked THEN [checked |-> checked, raised |-> <<>>]
    ELSE IF layer_name \notin DOMAIN loaded
    THEN [checked |-> checked \cup {layer_name},
          raised |-> IF layer_name \in DOMAIN errors
                     THEN <<Raised("ValueError", "unavailable",
                                   <<layer_name, errors[layer_name]>>)>>
                     ELSE <<Raised("ValueError", "missing_dependency",
                                   <<layer_name>>)>>]
    ELSE CheckMissingEach(loaded, errors, get_dependencies(loaded, layer_name),
                          checked \cup {layer_name})

\* `for dep in self.get_dependencies(layer_name)' of check_missing_dependencies
CheckMissingEach(loaded, errors, deps, checked) ==
    IF deps = <<>> THEN [checked |-> checked, raised |-> <<>>]
    ELSE LET one == check_missing_dependencies(loaded, errors, Head(deps), checked)
         IN  IF one.raised # <<>> THEN one
             ELSE CheckMissingEach(loaded, errors, Tail(deps), one.checked)

\* get_build_order.add_layer_and_deps at recursion depth `depth':
\* [build_order, processed, raised]
RECURSIVE add_layer_and_deps(_, _, _, _, _)
RECURSIVE AddEach(_, _, _, _, _)
add_layer_and_deps(loaded, layer_name, build_order, processed, depth) ==
    IF depth > RecursionLimit
    THEN [build_order |-> build_order, processed |-> processed,
          raised |-> <<Raised("RecursionError", "recursion_depth", <<layer_name>>)>>]
    ELSE IF layer_name \in processed
    THEN [build_order |-> build_order, processed |-> processed, raised |-> <<>>]
    ELSE LET after == AddEach(loaded,
                              get_dependencies(loaded, layer_name)
                                  \o SelectSeq(get_optional_dependencies(loaded, layer_name),
                                               LAMBDA d : d \in DOMAIN loaded),
                              build_order, processed, depth + 1)
         IN  IF after.raised # <<>> THEN after
             ELSE IF layer_name \in after.processed THEN after
             ELSE [build_order |-> Append(after.build_order, layer_name),
                   processed |-> after.processed \cup {layer_name},
                   raised |-> <<>>]

\* the calls of add_layer_and_deps on each of `names' in turn
AddEach(loaded, names, build_order, processed, depth) ==
    IF names = <<>>
    THEN [build_order |-> build_order, processed |-> processed, raised |-> <<>>]
    ELSE LET one == add_layer_and_deps(loaded, Head(names), build_order,
                                       processed, depth)
         IN  IF one.raised # <<>> THEN one
             ELSE AddEach(loaded, Tail(names), one.build_order, one.processed, depth)

\* <<>>, or <<the ValueError>> for the first provider that a second layer
\* of the scope provides again
RECURSIVE _check_provider_conflicts_in_scope(_, _)
_check_provider_conflicts_in_scope(pairs, scope_providers) ==
    IF pairs = <<>> THEN <<>>
    ELSE LET provider == Head(pairs)[1]
             layer_name == Head(pairs)[2]
         IN  IF DictHas(scope_providers, provider)
             THEN <<Raised("ValueError", "provider_conflict",
                           <<provider, DictGet(scope_providers, provider), layer_name>>)>>
             ELSE _check_provider_conflicts_in_scope(Tail(pairs),
                      DictPut(scope_providers, provider, layer_name))

\* the <<capability, layer>> pairs of a field of the layers of `names', in
\* the order the loops of _validate_provider_requirements meet them
CapabilityPairs(loaded, names, field) ==
    ConcatAll([i \in DOMAIN names |->
        IF names[i] \in DOMAIN loaded
        THEN [j \in DOMAIN loaded[names[i]][field] |->
                 <<loaded[names[i]][field][j], names[i]>>]
        ELSE <<>>])

BuggyAvailableProviders(loaded, build_order) ==
    UNION {Range(loaded[n].provides) : n \in DOMAIN loaded}

AvailableProviders(loaded, build_order) ==
    {p[1] : p \in Range(CapabilityPairs(loaded, build_order, "provides"))}

\* <<>>, or <<the ValueError>>
_validate_provider_requirements(loaded, build_order) ==
    LET conflict  == _check_provider_conflicts_in_scope(
                         CapabilityPairs(loaded, build_order, "provides"), <<>>)
        available == AvailableProviders(loaded, build_order)
        unmet     == SelectSeq(CapabilityPairs(loaded, build_order, "provider_requires"),
                               LAMBDA p : p[1] \notin available)
    IN  IF conflict # <<>> THEN conflict
        ELSE IF unmet # <<>>
        THEN <<Raised("ValueError", "requires_provider", <<unmet[1][2], unmet[1][1]>>)>>
        ELSE <<>>

\* `for layer in target_layers: check_missing_dependencies(layer)': each
\* call starts with a fresh `checked'
RECURSIVE CheckMissingTargets(_, _, _)
CheckMissingTargets(loaded, errors, targets) ==
    IF targets = <<>> THEN <<>>
    ELSE LET one == check_missing_dependencies(loaded, errors, Head(targets), {})
         IN  IF one.raised # <<>> THEN one.raised
             ELSE CheckMissingTargets(loaded, errors, Tail(targets))

get_build_order(loaded, errors, targets) ==
    LET missing == CheckMissingTargets(loaded, errors, targets)
        added   == AddEach(loaded, targets, <<>>, {}, 1)
        invalid == _validate_provider_requirements(loaded, added.build_order)
    IN  IF missing # <<>> THEN missing[1]
        ELSE IF added.raised # <<>> THEN added.raised[1]
        ELSE IF invalid # <<>> THEN invalid[1]
        ELSE Returned(added.build_order)

RECURSIVE get_all_dependencies(_, _, _)
get_all_dependencies(loaded, layer_name, visited) ==
    IF layer_name \in visited \/ layer_name \notin DOMAIN loaded THEN <<>>
    ELSE LET deps == get_dependencies(loaded, layer_name)
         IN  Dedup(ConcatAll([i \in DOMAIN deps |->
                 <<deps[i]>> \o get_all_dependencies(loaded, deps[i],
                                                     visited \cup {layer_name})]))

\* the cycle found first, <<>> when there is none
RECURSIVE _check_circular_dependencies(_, _, _)
RECURSIVE FirstCycle(_, _, _)
_check_circular_dependencies(loaded, layer_name, path) ==
    IF layer_name \in Range(path) THEN Append(path, layer_name)
    ELSE IF layer_name \notin DOMAIN loaded THEN <<>>
    ELSE FirstCycle(loaded, get_dependencies(loaded, layer_name),
                    Append(path, layer_name))

\* `for dep in self.get_dependencies(layer_name)' of _check_circular_dependencies
FirstCycle(loaded, deps, path) ==
    IF deps = <<>> THEN <<>>
    ELSE LET cycle == _check_circular_dependencies(loaded, Head(deps), path)
         IN  IF cycle # <<>> THEN cycle ELSE FirstCycle(loaded, Tail(deps), path)

\* (ok, messages); a message is [kind, detail]
check_dependencies(loaded, errors, layer_name) ==
    IF layer_name \notin DOMAIN loaded
    THEN Returned([ok |-> FALSE,
                   messages |-> <<[kind |-> "not_found", detail |-> <<layer_name>>]>>])
    ELSE LET required_deps == get_all_dependencies(loaded, layer_name, {})
             absent   == SelectSeq(required_deps, LAMBDA d : d \notin DOMAIN loaded)
             missing  == [i \in DOMAIN absent |->
                             [kind |-> "missing_dependency",
                              detail |-> <<layer_name, absent[i]>>]]
             circular == _check_circular_dependencies(loaded, layer_name, <<>>)
             cyclic   == IF circular # <<>>
                         THEN <<[kind |-> "circular", detail |-> circular]>>
                         ELSE <<>>
             order    == get_build_order(loaded, errors, <<layer_name>>)
         IN  IF missing \o cyclic # <<>>
             THEN Returned([ok |-> FALSE, messages |-> missing \o cyclic])
             ELSE IF order.raises = "ValueError"
             THEN Returned([ok |-> FALSE,
                            messages |-> <<[kind |-> order.error,
                                            detail |-> order.detail]>>])
             ELSE IF order.raises # "" THEN order
             ELSE Returned([ok |-> TRUE, messages |-> <<>>])

(***************************************************************************)
(* The layer graphs the manager is exercised on: three loaded layers and   *)
(* one name that no file declares, which may have failed to load.          *)
(***************************************************************************)
LoadedNames == {"a", "b", "c"}

AbsentName == "x"

\* the number of `requires' entries of the whole graph
MaxEdges == 3

DependsLists ==
    LET names == LoadedNames \cup {AbsentName}
    IN  {<<>>} \cup {<<n>> : n \in names}
               \cup {pair \in names \X names : pair[1] # pair[2]}

RECURSIVE SumLen(_, _)
SumLen(f, S) ==
    IF S = {} THEN 0
    ELSE LET n == CHOOSE n \in S : TRUE IN Len(f[n]) + SumLen(f, S \ {n})

Capabilities == {<<>>, <<"db">>}

LayerGraphs ==
    {[n \in LoadedNames |->
         [depends |-> d[n], provides |-> p[n],
          provider_requires |-> IF n = "a" THEN r ELSE <<>>]] :
       d \in {d \in [LoadedNames -> DependsLists] : SumLen(d, LoadedNames) <= MaxEdges},
       p \in [LoadedNames -> Capabilities],
       r \in Capabilities}

TargetLists == {<<"a">>, <<"a", "b">>, <<"b", "a">>, <<"c", "a">>}

NoLoadErrors == [n \in {} |-> ""]

LoadErrors(graph) ==
    IF \E n \in LoadedNames : AbsentName \in Range(graph[n].depends)
    THEN {NoLoadErrors, [n \in {AbsentName} |-> "metadata validation failed"]}
    ELSE {NoLoadErrors}

InitOrder ==
    /\ PipelineIdle
    /\ ResolverIdle
    /\ ParserIdle
    /\ LoaderIdle
    /\ lm_layers \in LayerGraphs
    /\ load_errors \in LoadErrors(lm_layers)
    /\ target_layers \in TargetLists
    /\ lm_pc = "idle"
    /\ lm_call = <<>>
    /\ lm_result = Returned(<<>>)

GetBuildOrder ==
    /\ lm_pc = "idle"
    /\ lm_pc' = "returned"
    /\ lm_call' = <<"get_build_order", target_layers>>
    /\ lm_result' = get_build_order(lm_layers, load_errors, target_layers)
    /\ UNCHANGED <<lm_layers, load_errors, target_layers, loader_vars>>
    /\ UNCHANGED <<pipeline_vars, resolver_vars, parser_vars>>

CheckDependencies ==
    /\ lm_pc = "idle"
    /\ \E layer_name \in Range(target_layers) :
          /\ lm_call' = <<"check_dependencies", layer_name>>
          /\ lm_result' = check_dependencies(lm_layers, load_errors, layer_name)
    /\ lm_pc' = "returned"
    /\ UNCHANGED <<lm_layers, load_errors, target_layers, loader_vars>>
    /\ UNCHANGED <<pipeline_vars, resolver_vars, parser_vars>>

NextOrder == GetBuildOrder \/ CheckDependencies

SpecOrder == InitOrder /\ [][NextOrder]_vars

-----------------------------------------------------------------------------
(***************************************************************************)
(* Claims about the layer manager, stated on the layer graph itself.       *)
(***************************************************************************)
Requires(n) ==
    IF n \in DOMAIN lm_layers THEN Range(lm_layers[n].depends) ELSE {}

\* S with everything S requires, directly or not
RECURSIVE Reach(_)
Reach(S) ==
    LET more == S \cup UNION {Requires(n) : n \in S}
    IN  IF more = S THEN S ELSE Reach(more)

TransitivelyRequired == Reach(Range(target_layers))

CycleReachable(S) == \E n \in Reach(S) : n \in Reach(Requires(n))

\* the post-order of a depth-first walk that never prunes, cut on re-entry
RECURSIVE PostOrder(_, _)
PostOrder(names, path) ==
    ConcatAll([i \in DOMAIN names |->
        IF names[i] \in path \/ names[i] \notin DOMAIN lm_layers THEN <<names[i]>>
        ELSE Append(PostOrder(lm_layers[names[i]].depends, path \cup {names[i]}),
                    names[i])])

Called(method) == lm_pc = "returned" /\ lm_call[1] = method

OrderReturned == Called("get_build_order") /\ lm_result.raises = ""

ProvidedBy(capability, S) ==
    {n \in S \cap DOMAIN lm_layers : capability \in Range(lm_layers[n].provides)}

RequiredCapabilities(S) ==
    UNION {Range(lm_layers[n].provider_requires) : n \in S \cap DOMAIN lm_layers}

ProvidersSound(S) ==
    /\ \A n \in S \cap DOMAIN lm_layers :
          \A capability \in Range(lm_layers[n].provides) :
             ProvidedBy(capability, S) = {n}
    /\ \A capability \in RequiredCapabilities(S) : ProvidedBy(capability, S) # {}

\* C6: an order returned by get_build_order has no layer twice, holds
\* exactly the requested layers and all they transitively require, has every
\* layer after all the layers it requires, and is the post-order of the
\* depth-first walk of the requested layers in the given order, each layer's
\* requirements in declaration order; when some transitively required layer
\* is not loaded the call raises an error instead.
C6_BuildOrderIsPostOrder ==
    Called("get_build_order") =>
       /\ lm_result.raises = "" =>
             LET O == lm_result.value
             IN  /\ \A i, j \in DOMAIN O : O[i] = O[j] => i = j
                 /\ Range(O) = TransitivelyRequired
                 /\ \A i \in DOMAIN O : \A d \in Requires(O[i]) :
                       \E j \in 1..(i - 1) : O[j] = d
                 /\ O = Dedup(PostOrder(target_layers, {}))
       /\ ~(TransitivelyRequired \subseteq DOMAIN lm_layers) =>
             lm_result.raises = "ValueError"

C6_Witness ==
    /\ OrderReturned
    /\ target_layers = <<"b", "a">>
    /\ lm_layers["a"].depends = <<"c", "b">>
    /\ lm_layers["b"].depends = <<"c">>
    /\ lm_result.value = <<"c", "b", "a">>

\* C7: in an order returned by get_build_order no capability is provided by
\* two of its layers and every capability one of its layers requires is
\* provided by one of its layers; when the computed order breaks either rule
\* the call raises a provider error, even if a loaded layer outside the order
\* provides the capability.
C7_ProvidersWithinOrder ==
    Called("get_build_order") =>
       /\ lm_result.raises = "" => ProvidersSound(Range(lm_result.value))
       /\ ( /\ TransitivelyRequired \subseteq DOMAIN lm_layers
            /\ ~CycleReachable(Range(target_layers))
            /\ ~ProvidersSound(TransitivelyRequired) ) =>
             /\ lm_result.raises = "ValueError"
             /\ lm_result.error \in {"provider_conflict", "requires_provider"}

C7_Witness ==
    /\ Called("get_build_order")
    /\ lm_result.raises = "ValueError"
    /\ lm_result.error = "requires_provider"
    /\ lm_result.detail = <<"a", "db">>
    /\ ProvidedBy("db", DOMAIN lm_layers \ TransitivelyRequired) # {}

\* a chain is a walk along `requires' from the layer that ends by entering
\* again a layer it holds
CycleChain(chain, layer_name) ==
    /\ Len(chain) >= 2
    /\ chain[1] = layer_name
    /\ \A i \in 1..(Len(chain) - 1) : chain[i + 1] \in Requires(chain[i])
    /\ \A i, j \in 1..(Len(chain) - 1) : chain[i] = chain[j] => i = j
    /\ \E i \in 1..(Len(chain) - 1) : chain[i] = chain[Len(chain)]

\* C8: when a cycle of `requires' is reachable from a requested layer,
\* check_dependencies returns ok = false with the chain of the cycle, and
\* get_build_order ends with a graph error (a ValueError).
C8_CycleIsGraphError ==
    /\ ( Called("check_dependencies") /\ CycleReachable({lm_call[2]}) ) =>
          /\ lm_result.raises = ""
          /\ lm_result.value.ok = FALSE
          /\ \E i \in DOMAIN lm_result.value.messages :
                /\ lm_result.value.messages[i].kind = "circular"
                /\ CycleChain(lm_result.value.messages[i].detail, lm_call[2])
    /\ ( Called("get_build_order") /\ CycleReachable(Range(target_layers)) ) =>
          lm_result.raises = "ValueError"

\* the half of C8 that is about check_dependencies
C8_CheckDependenciesReportsChain ==
    ( Called("check_dependencies") /\ CycleReachable({lm_call[2]}) ) =>
       /\ lm_result.raises = ""
       /\ lm_result.value.ok = FALSE
       /\ \E i \in DOMAIN lm_result.value.messages :
             /\ lm_result.value.messages[i].kind = "circular"
             /\ CycleChain(lm_result.value.messages[i].detail, lm_call[2])

\* get_build_order on a graph with a reachable cycle and nothing missing
\* exhausts the interpreter's stack
C8_RecursionError ==
    /\ Called("get_build_order")
    /\ CycleReachable(Range(target_layers))
    /\ lm_result.raises = "RecursionError"

-----------------------------------------------------------------------------
(***************************************************************************)
(* env_resolver.py.  A text (a value, a variable's name, an anchor's name) *)
(* is a sequence of one-character strings, so that the `${...}' pattern    *)
(* is matched the way the regular expression matches it.  A resolver is    *)
(* [assignments, external_context, anchors, preserve_anchors, cache]; its  *)
(* _stack is the `stack' argument.  An operation returns [self, value,     *)
(* raised]: the resolver it leaves, and what it returned or <<the error>>. *)
(***************************************************************************)
\* the letters texts are made of, and the underscore
NameStart == {"A", "B", "C", "G", "I", "O", "R", "S", "T", "U", "X", "V", "W",
              "r", "v", "w", "_"}

Digits == {"0", "1", "2", "3", "4", "5", "6", "7", "8", "9"}

\* str.upper on the characters texts are made of
Upper(c) ==
    IF c = "r" THEN "R" ELSE IF c = "v" THEN "V" ELSE IF c = "w" THEN "W" ELSE c

\* _VALID_VAR: ^[A-Za-z_][A-Za-z0-9_]*$
_VALID_VAR(token) ==
    /\ token # <<>>
    /\ token[1] \in NameStart
    /\ \A i \in DOMAIN token : token[i] \in NameStart \cup Digits

\* _VAR_PATTERN, \$\{([^}]+)\}, at index i of text: the index of the
\* closing brace of the match, 0 when there is no match at i
MatchEnd(text, i) ==
    IF /\ i + 3 <= Len(text)
       /\ text[i] = "$"
       /\ text[i + 1] = "{"
       /\ text[i + 2] # "}"
       /\ \E j \in (i + 3)..Len(text) : text[j] = "}"
    THEN CHOOSE j \in (i + 3)..Len(text) :
            /\ text[j] = "}"
            /\ \A k \in (i + 3)..(j - 1) : text[k] # "}"
    ELSE 0

normalize(name) ==
    LET stripped == Strip(name)
        anchored == IF stripped # <<>> /\ stripped[1] = "@" THEN stripped
                    ELSE <<"@">> \o stripped
    IN  [i \in DOMAIN anchored |-> Upper(anchored[i])]

BuggyMarkUsage(registry, anchor_name, owner) == registry

NoEntry == [var |-> <<>>, value |-> <<>>, referenced_by |-> {}]

\* entry["var"], <<>> standing for None
get_var(registry, anchor_name) ==
    IF DictHas(registry, normalize(anchor_name))
    THEN DictGet(registry, normalize(anchor_name)).var
    ELSE <<>>

mark_usage(registry, anchor_name, owner) ==
    LET norm  == normalize(anchor_name)
        entry == IF DictHas(registry, norm) THEN DictGet(registry, norm) ELSE NoEntry
    IN  DictPut(registry, norm,
                [entry EXCEPT !.referenced_by = @ \cup {owner}])

\* <<the value>>, or <<>> when the call raises AssignmentError
AnchorRegistry_resolve(registry, anchor_name) ==
    IF DictHas(registry, normalize(anchor_name))
    THEN DictGet(registry, normalize(anchor_name)).value
    ELSE <<>>

Gave(self, value) == [self |-> self, value |-> value, raised |-> <<>>]

Threw(self, type, error, detail) ==
    [self |-> self, value |-> <<>>, raised |-> <<Raised(type, error, detail)>>]

RECURSIVE LazyEnvResolver_resolve(_, _, _)

\* _expand_text.repl on the match text[i..j]
repl(self, text, i, j, current_var, stack) ==
    Only({
      Only({
        LET value  == AnchorRegistry_resolve(marked.anchors, token)
            bound_var == get_var(marked.anchors, token)
        IN  IF token = <<>> THEN Gave(self, <<>>)
            ELSE IF token[1] = "@"
            THEN IF self.preserve_anchors THEN Gave(marked, SubSeq(text, i, j))
                 ELSE IF value # <<>> THEN Gave(marked, value[1])
                 ELSE IF bound_var # <<>>
                 THEN LazyEnvResolver_resolve(marked, bound_var, stack)
                 ELSE Threw(marked, "AssignmentError", "anchor_without_value",
                            <<normalize(token)>>)
            ELSE IF ~_VALID_VAR(token)
            THEN Threw(self, "AssignmentError", "invalid_reference",
                       <<token, current_var>>)
            ELSE LazyEnvResolver_resolve(self, token, stack)
        : marked \in {[self EXCEPT !.anchors = mark_usage(@, token, current_var)]} })
      : token \in {Strip(SubSeq(text, i + 2, j - 1))} })

\* _VAR_PATTERN.sub(repl, text) from index i on, `out' being the text
\* produced so far
RECURSIVE Sub(_, _, _, _, _, _)
Sub(self, text, i, out, current_var, stack) ==
    IF i > Len(text) THEN Gave(self, out)
    ELSE IF MatchEnd(text, i) = 0
    THEN Sub(self, text, i + 1, Append(out, text[i]), current_var, stack)
    ELSE Only({
             IF one.raised # <<>> THEN one
             ELSE Sub(one.self, text, MatchEnd(text, i) + 1, out \o one.value,
                      current_var, stack)
             : one \in {repl(self, text, i, MatchEnd(text, i), current_var, stack)} })

_expand_text(self, text, current_var, stack) ==
    Sub(self, text, 1, <<>>, current_var, stack)

BuggyLookup(self, name) ==
    IF DictHas(self.external_context, name) THEN "external"
    ELSE IF DictHas(self.assignments, name) THEN "assignments"
    ELSE "undefined"

\* where LazyEnvResolver.resolve finds the name
Lookup(self, name) ==
    IF DictHas(self.assignments, name) THEN "assignments"
    ELSE IF DictHas(self.external_context, name) THEN "external"
    ELSE "undefined"

BuggyChain(stack, name) == stack

\* `self._stack + [name]', the chain of the CircularReferenceError
Chain(stack, name) == Append(stack, name)

LazyEnvResolver_resolve(self, name, stack) ==
    IF DictHas(self.cache, name) THEN Gave(self, DictGet(self.cache, name))
    ELSE IF name \in Range(stack)
    THEN Threw(self, "CircularReferenceError", "circular", Chain(stack, name))
    ELSE IF Lookup(self, name) = "assignments"
    THEN Only({
             IF expanded.raised # <<>> THEN expanded
             ELSE Gave([expanded.self EXCEPT !.cache = DictPut(@, name, expanded.value)],
                       expanded.value)
             : expanded \in {_expand_text(self, DictGet(self.assignments, name), name,
                                          Append(stack, name))} })
    ELSE IF Lookup(self, name) = "external"
    THEN Gave(self, DictGet(self.external_context, name))
    ELSE Threw(self, "UndefinedVariableError", "undefined", <<name>>)

\* the loop of resolve_all over `names', `resolved' being its OrderedDict
RECURSIVE ResolveEach(_, _, _)
ResolveEach(self, names, resolved) ==
    IF names = <<>> THEN Gave(self, resolved)
    ELSE Only({
             IF one.raised # <<>> THEN one
             ELSE ResolveEach(one.self, Tail(names),
                              DictPut(resolved, Head(names), one.value))
             : one \in {LazyEnvResolver_resolve(self, Head(names), <<>>)} })

resolve_all(self) == ResolveEach(self, DictKeys(self.assignments), <<>>)

\* the lines write_env_file writes, as <<name, value>>
write_env_file(assigned, resolved_values) ==
    [i \in DOMAIN assigned |->
        <<assigned[i][1],
          IF DictHas(resolved_values, assigned[i][1])
          THEN DictGet(resolved_values, assigned[i][1]) ELSE <<>>>>]

(***************************************************************************)
(* The resolvers exercised: up to three assigned names in a few orders,    *)
(* raw values that reference assigned, external and undefined names and an *)
(* anchor, and the text shapes the pattern treats differently.             *)
(***************************************************************************)
NameA == <<"A">>
NameB == <<"B">>
NameC == <<"C">>
NameX == <<"X">>
NameU == <<"U">>

Ref(token) == <<"$", "{">> \o token \o <<"}">>

RawTexts ==
    { <<"v">>,
      Ref(NameA), Ref(NameB), Ref(NameC), Ref(NameX), Ref(NameU),
      Ref(<<" ", "B", " ">>),
      Ref(<<"@", "r">>),
      <<"v">> \o Ref(<<"@", "r">>),
      Ref(NameU) \o Ref(NameB),
      <<"v">> \o Ref(NameB) \o <<"w">>,
      Ref(<<"B", "-">>),
      Ref(<<" ">>),
      <<"$", "{", "}">>,
      <<"$", "{">> \o Ref(NameB) }

AssignmentSets ==
    {<<(<<NameA, a>>)>> : a \in RawTexts}
    \cup {<<(<<NameA, a>>), (<<NameB, b>>)>> : a \in RawTexts, b \in RawTexts}
    \cup {<<(<<NameB, b>>), (<<NameA, a>>)>> : a \in RawTexts, b \in RawTexts}
    \cup {<<(<<NameC, c>>), (<<NameA, a>>), (<<NameB, b>>)>> :
             a \in {Ref(NameB), Ref(NameC)}, b \in RawTexts,
             c \in {Ref(NameA), Ref(NameU)}}

ExternalContexts ==
    { <<(<<NameX, Ref(NameA)>>), (<<NameA, <<"w">>>>)>>,
      <<(<<NameB, <<"w">>>>)>> }

Registries ==
    { <<>>,
      <<(<<(<<"@", "R">>), [var |-> NameA, value |-> <<>>, referenced_by |-> {}]>>)>>,
      <<(<<(<<"@", "R">>), [var |-> NameB, value |-> <<>>, referenced_by |-> {}]>>)>>,
      <<(<<(<<"@", "R">>), [var |-> NameA, value |-> <<(<<"w">>)>>,
                            referenced_by |-> {}]>>)>> }

QueryNames == {NameA, NameB, NameX, NameU}

InitEnv ==
    /\ PipelineIdle
    /\ ManagerIdle
    /\ lr_assignments \in AssignmentSets
    /\ external_context \in ExternalContexts
    /\ anchors \in Registries
    /\ preserve_anchors \in BOOLEAN
    /\ cache = <<>>
    /\ lr_pc = "ready"
    /\ lr_call = <<>>
    /\ lr_result = Returned(<<>>)
    /\ env_out = [written |-> FALSE, lines |-> <<>>]
    /\ FileIdle
    /\ ParserIdle

Self ==
    [assignments |-> lr_assignments, external_context |-> external_context,
     anchors |-> anchors, preserve_anchors |-> preserve_anchors, cache |-> cache]

Outcome(out) == IF out.raised = <<>> THEN Returned(out.value) ELSE out.raised[1]

\* a caller resolves one name
Resolve ==
    /\ lr_pc = "ready"
    /\ \E name \in QueryNames :
       \E out \in {LazyEnvResolver_resolve(Self, name, <<>>)} :
          /\ lr_call' = <<"resolve", name>>
          /\ lr_result' = Outcome(out)
          /\ cache' = out.self.cache
          /\ anchors' = out.self.anchors
    /\ UNCHANGED <<lr_assignments, external_context, preserve_anchors, lr_pc, env_out>>
    /\ UNCHANGED <<pipeline_vars, manager_vars, file_vars, parser_vars>>

\* resolve_env_file and _pipeline_main: resolver.resolve_all()
ResolveAll ==
    /\ lr_pc = "ready"
    /\ \E out \in {resolve_all(Self)} :
          /\ lr_call' = <<"resolve_all">>
          /\ lr_result' = Outcome(out)
          /\ cache' = out.self.cache
          /\ anchors' = out.self.anchors
          /\ lr_pc' = IF out.raised = <<>> THEN "resolved" ELSE "failed"
    /\ UNCHANGED <<lr_assignments, external_context, preserve_anchors, env_out>>
    /\ UNCHANGED <<pipeline_vars, manager_vars, file_vars, parser_vars>>

\* resolve_env_file and _pipeline_main: write_env_file once resolve_all
\* returned
WriteEnvFile ==
    /\ lr_pc = "resolved"
    /\ env_out' = [written |-> TRUE,
                   lines |-> write_env_file(lr_assignments, lr_result.value)]
    /\ lr_pc' = "written"
    /\ UNCHANGED <<lr_assignments, external_context, anchors, preserve_anchors,
                   cache, lr_call, lr_result>>
    /\ UNCHANGED <<pipeline_vars, manager_vars, file_vars, parser_vars>>

NextEnv == Resolve \/ ResolveAll \/ WriteEnvFile

SpecEnv == InitEnv /\ [][NextEnv]_vars

-----------------------------------------------------------------------------
(***************************************************************************)
(* Claims about the lazy resolver, stated on the texts themselves.         *)
(***************************************************************************)
Assigned == Range(DictKeys(lr_assignments))

External == Range(DictKeys(external_context))

\* the tokens of the references of a text, in order
RECURSIVE TokensFrom(_, _)
TokensFrom(text, i) ==
    IF i > Len(text) THEN <<>>
    ELSE IF MatchEnd(text, i) = 0 THEN TokensFrom(text, i + 1)
    ELSE <<Strip(SubSeq(text, i + 2, MatchEnd(text, i) - 1))>>
             \o TokensFrom(text, MatchEnd(text, i) + 1)

Tokens(name) == Range(TokensFrom(DictGet(lr_assignments, name), 1))

IsAnchor(token) == token # <<>> /\ token[1] = "@"

\* the variable an anchor reference leads resolution to, if any
FollowedAnchor(token) ==
    IF /\ ~preserve_anchors
       /\ AnchorRegistry_resolve(anchors, token) = <<>>
       /\ get_var(anchors, token) # <<>>
    THEN {get_var(anchors, token)}
    ELSE {}

\* the names the resolution of `name' goes on to resolve
References(name) ==
    IF name \notin Assigned THEN {}
    ELSE UNION {IF IsAnchor(token) THEN FollowedAnchor(token)
                ELSE IF _VALID_VAR(token) THEN {token} ELSE {} :
                token \in Tokens(name)}

RECURSIVE ReachNames(_)
ReachNames(S) ==
    LET more == S \cup UNION {References(n) : n \in S}
    IN  IF more = S THEN S ELSE ReachNames(more)

OnCycle(name) == name \in ReachNames(References(name))

ReferenceCycle == \E name \in ReachNames(Assigned) : OnCycle(name)

\* every reference of every assigned value can be resolved
Resolvable(token) ==
    \/ token = <<>>
    \/ /\ IsAnchor(token)
       /\ \/ preserve_anchors
          \/ AnchorRegistry_resolve(anchors, token) # <<>>
          \/ FollowedAnchor(token) \subseteq Assigned \cup External
             /\ FollowedAnchor(token) # {}
    \/ /\ ~IsAnchor(token)
       /\ _VALID_VAR(token)
       /\ token \in Assigned \cup External

AllResolvable == \A name \in Assigned : \A token \in Tokens(name) : Resolvable(token)

\* the resolution stack followed by the name that was entered again
ReferenceChain(chain) ==
    /\ Len(chain) >= 2
    /\ chain[1] \in Assigned
    /\ \A i \in 1..(Len(chain) - 1) : chain[i + 1] \in References(chain[i])
    /\ \A i, j \in 1..(Len(chain) - 1) : chain[i] = chain[j] => i = j
    /\ \E i \in 1..(Len(chain) - 1) : chain[i] = chain[Len(chain)]

ResolverCalled(method) == lr_call # <<>> /\ lr_call[1] = method

\* C9 as stated: when the reference graph of the assignments has a cycle,
\* resolve_all raises CircularReferenceError with the chain of the cycle,
\* resolve never returns a value for a name on the cycle, and no env file
\* is written.
C9_CycleRaisesCircular ==
    /\ ( ResolverCalled("resolve_all") /\ ReferenceCycle ) =>
          /\ lr_result.raises = "CircularReferenceError"
          /\ ReferenceChain(lr_result.detail)
    /\ ( ResolverCalled("resolve") /\ OnCycle(lr_call[2]) ) => lr_result.raises # ""
    /\ ReferenceCycle => ~env_out.written

\* C9, amended: when the reference graph of the assignments has a cycle,
\* resolve_all raises an error: CircularReferenceError with the chain of the
\* cycle whenever every reference can be resolved, else that error or the
\* error of an unresolvable reference; resolve never returns a value for a
\* name on the cycle, and no env file is written.
C9_CycleRaises ==
    /\ ( ResolverCalled("resolve_all") /\ ReferenceCycle ) =>
          /\ lr_result.raises \in {"CircularReferenceError", "UndefinedVariableError",
                                   "AssignmentError"}
          /\ lr_result.raises = "CircularReferenceError" =>
                ReferenceChain(lr_result.detail)
          /\ AllResolvable => lr_result.raises = "CircularReferenceError"
          /\ lr_pc = "failed"
    /\ ( ResolverCalled("resolve") /\ OnCycle(lr_call[2]) ) => lr_result.raises # ""
    /\ ReferenceCycle => ~env_out.written

C9_Witness ==
    /\ ResolverCalled("resolve_all")
    /\ lr_assignments = <<(<<NameA, Ref(NameB)>>), (<<NameB, Ref(NameA)>>)>>
    /\ lr_result.raises = "CircularReferenceError"
    /\ lr_result.detail = <<NameA, NameB, NameA>>
    /\ lr_pc = "failed"

\* a cycle that goes through the variable an anchor is bound to
C9_AnchorCycle ==
    /\ ResolverCalled("resolve_all")
    /\ DictGet(lr_assignments, NameA) = Ref(<<"@", "r">>)
    /\ lr_result.raises = "CircularReferenceError"
    /\ lr_result.detail = <<NameA, NameA>>

\* the value of a name as the resolver now gives it
ResolvedValue(name) == LazyEnvResolver_resolve(Self, name, <<>>).value

\* `text' from index i on with every reference replaced by the resolved
\* value of the name it holds
RECURSIVE Replaced(_, _)
Replaced(text, i) ==
    IF i > Len(text) THEN <<>>
    ELSE IF MatchEnd(text, i) = 0 THEN <<text[i]>> \o Replaced(text, i + 1)
    ELSE LET token == Strip(SubSeq(text, i + 2, MatchEnd(text, i) - 1))
         IN  (IF token = <<>> THEN <<>> ELSE ResolvedValue(token))
                 \o Replaced(text, MatchEnd(text, i) + 1)

NamesOnly(name) == \A token \in Tokens(name) : ~IsAnchor(token)

\* C10: resolve(name) gives, for an assigned name, its raw value with every
\* ${NAME} replaced by the resolved value of NAME, even if the external
\* context holds the name too; for a name only the external context holds,
\* the external value as it is; for a name neither holds, an
\* UndefinedVariableError; and resolve_all returns a value for every
\* assigned name, in order, or raises.
C10_AssignmentsThenExternal ==
    /\ ResolverCalled("resolve") =>
          LET name == lr_call[2]
          IN  /\ ( name \in Assigned /\ lr_result.raises = "" /\ NamesOnly(name) ) =>
                    lr_result.value = Replaced(DictGet(lr_assignments, name), 1)
              /\ ( name \notin Assigned /\ name \in External ) =>
                    /\ lr_result.raises = ""
                    /\ lr_result.value = DictGet(external_context, name)
              /\ ( name \notin Assigned /\ name \notin External ) =>
                    /\ lr_result.raises = "UndefinedVariableError"
                    /\ lr_result.detail = <<name>>
    /\ ResolverCalled("resolve_all") =>
          \/ lr_result.raises # ""
          \/ /\ DictKeys(lr_result.value) = DictKeys(lr_assignments)
             /\ \A name \in Assigned : NamesOnly(name) =>
                   DictGet(lr_result.value, name)
                       = Replaced(DictGet(lr_assignments, name), 1)

C10_Witness ==
    /\ ResolverCalled("resolve")
    /\ lr_call[2] = NameA
    /\ lr_assignments = <<(<<NameA, Ref(NameX)>>), (<<NameB, <<"v">> \o Ref(NameB) \o <<"w">>>>)>>
    /\ DictHas(external_context, NameA)
    /\ lr_result.raises = ""
    /\ lr_result.value = Ref(NameA)

\* the referrers recorded for the anchor a token names
ReferencedBy(token) ==
    IF DictHas(anchors, normalize(token))
    THEN DictGet(anchors, normalize(token)).referenced_by
    ELSE {}

\* an anchor reference that neither a registry value nor a bound variable
\* resolves
Unbound(token) ==
    /\ IsAnchor(token)
    /\ AnchorRegistry_resolve(anchors, token) = <<>>
    /\ get_var(anchors, token) = <<>>

\* `text' from index i on with every ${@ANCHOR} kept or replaced as the
\* registry says, and every other reference replaced by the resolved value
\* of its name
RECURSIVE AnchorsReplaced(_, _)
AnchorsReplaced(text, i) ==
    IF i > Len(text) THEN <<>>
    ELSE IF MatchEnd(text, i) = 0 THEN <<text[i]>> \o AnchorsReplaced(text, i + 1)
    ELSE LET token == Strip(SubSeq(text, i + 2, MatchEnd(text, i) - 1))
         IN  (IF token = <<>> THEN <<>>
              ELSE IF ~IsAnchor(token) THEN ResolvedValue(token)
              ELSE IF preserve_anchors THEN SubSeq(text, i, MatchEnd(text, i))
              ELSE IF AnchorRegistry_resolve(anchors, token) # <<>>
              THEN AnchorRegistry_resolve(anchors, token)[1]
              ELSE ResolvedValue(get_var(anchors, token)))
                 \o AnchorsReplaced(text, MatchEnd(text, i) + 1)

\* what C11 says of an assigned name whose resolution gave `value'
AnchorsFollowed(name, value) ==
    /\ \A token \in Tokens(name) : IsAnchor(token) => name \in ReferencedBy(token)
    /\ value = AnchorsReplaced(DictGet(lr_assignments, name), 1)

\* C11: once X is resolved, X is a referrer of the normalized anchor of
\* every ${@ANCHOR} of its value, and in X's resolved value the reference
\* is kept verbatim when preserve_anchors is true, and otherwise replaced
\* by the registry's value when there is one, else by the resolved value of
\* the variable bound to the anchor; with preserve_anchors false and
\* neither a value nor a bound variable, resolution raises.
C11_AnchorReferences ==
    /\ ( ResolverCalled("resolve") /\ lr_call[2] \in Assigned ) =>
          /\ lr_result.raises = "" => AnchorsFollowed(lr_call[2], lr_result.value)
          /\ ( ~preserve_anchors /\ \E token \in Tokens(lr_call[2]) : Unbound(token) )
                => lr_result.raises # ""
    /\ ResolverCalled("resolve_all") =>
          /\ lr_result.raises = "" =>
                \A name \in Assigned :
                    AnchorsFollowed(name, DictGet(lr_result.value, name))
          /\ ( ~preserve_anchors
               /\ \E name \in Assigned : \E token \in Tokens(name) : Unbound(token) )
                => lr_result.raises # ""

\* an anchor without a value, bound to B: A's `v${@r}' becomes v and B's value
C11_Witness ==
    /\ ResolverCalled("resolve")
    /\ lr_call[2] = NameA
    /\ ~preserve_anchors
    /\ lr_assignments = <<(<<NameA, <<"v">> \o Ref(<<"@", "r">>)>>), (<<NameB, <<"v">>>>)>>
    /\ get_var(anchors, <<"@", "r">>) = NameB
    /\ AnchorRegistry_resolve(anchors, <<"@", "r">>) = <<>>
    /\ lr_result.raises = ""
    /\ lr_result.value = <<"v", "v">>
    /\ NameA \in ReferencedBy(<<"@", "R">>)

\* the same reference kept verbatim
C11_Preserved ==
    /\ ResolverCalled("resolve_all")
    /\ preserve_anchors
    /\ lr_result.raises = ""
    /\ DictHas(lr_result.value, NameA)
    /\ DictGet(lr_result.value, NameA) = <<"v">> \o Ref(<<"@", "r">>)
    /\ NameA \in ReferencedBy(<<"@", "r">>)

-----------------------------------------------------------------------------
(***************************************************************************)
(* pipeline.py, _pipeline_main after _apply_layers: _validate_resolved,    *)
(* the order file, the anchor registry, the final resolution and the env   *)
(* file.  SpecMain runs the whole of _pipeline_main on a build order.      *)
(***************************************************************************)
\* _build_anchor_map_from_layers: anchor name -> {"var": name}, the first
\* declaration of an anchor name kept (setdefault)
RECURSIVE BindAnchors(_, _)
BindAnchors(declaring, anchor_bindings) ==
    IF declaring = <<>> THEN anchor_bindings
    ELSE BindAnchors(Tail(declaring),
             IF DictHas(anchor_bindings, Head(declaring).anchor_name)
             THEN anchor_bindings
             ELSE DictPut(anchor_bindings, Head(declaring).anchor_name,
                          [var |-> Head(declaring).name, value |-> Unset]))

_build_anchor_map_from_layers(build) ==
    BindAnchors(SelectSeq(ConcatAll([i \in DOMAIN build |-> build[i].vars]),
                          LAMBDA v : v.anchor_name \notin {Unset, ""}),
                <<>>)

\* one turn of _inject_root_anchors' loop
InjectRoot(anchor_map, env_assignments, root_var, anchor) ==
    IF /\ DictHas(env_assignments, root_var)
       /\ DictGet(env_assignments, root_var) # ""
       /\ ~DictHas(anchor_map, anchor)
    THEN DictPut(anchor_map, anchor,
                 [var |-> root_var, value |-> DictGet(env_assignments, root_var)])
    ELSE anchor_map

_inject_root_anchors(anchor_map, env_assignments) ==
    InjectRoot(InjectRoot(anchor_map, env_assignments, "IGROOT", "@IGROOT"),
               env_assignments, "SRCROOT", "@SRCROOT")

\* AnchorRegistry.__init__: self._anchors[norm] = {...} for every item of
\* `initial', in order
RECURSIVE AnchorRegistry_init(_, _)
AnchorRegistry_init(initial, registry) ==
    IF initial = <<>> THEN registry
    ELSE AnchorRegistry_init(Tail(initial),
             DictPut(registry, normalize(Chars(Head(initial)[1])),
                     [var   |-> IF Head(initial)[2].var = Unset THEN <<>>
                                ELSE Chars(Head(initial)[2].var),
                      value |-> IF Head(initial)[2].value = Unset THEN <<>>
                                ELSE <<Chars(Head(initial)[2].value)>>,
                      referenced_by |-> {}]))

\* the registry _pipeline_main resolves with (lines 95-102)
registry_final(build, env_assignments) ==
    AnchorRegistry_init(
        _inject_root_anchors(_build_anchor_map_from_layers(build), env_assignments),
        <<>>)

\* a dict of strings as the resolver sees it
AsTexts(d) == [i \in DOMAIN d |-> <<Chars(d[i][1]), Chars(d[i][2])>>]

\* dict(os.environ)
EnvironDict(env) ==
    LET names == SelectSeq(NameOrder, LAMBDA n : n \in DOMAIN env /\ env[n] # Unset)
    IN  [i \in DOMAIN names |-> <<names[i], env[names[i]]>>]

\* LazyEnvResolver(assignments, anchor_registry=registry_final,
\* preserve_anchors=False)
resolver_final(build, env_assignments, env) ==
    [assignments |-> AsTexts(env_assignments),
     external_context |-> AsTexts(EnvironDict(env)),
     anchors |-> registry_final(build, env_assignments),
     preserve_anchors |-> FALSE,
     cache |-> <<>>]

\* _write_layer_order: one line per layer of the build order
_write_layer_order(build) == [i \in DOMAIN build |-> build[i].name]

(***************************************************************************)
(* The runs of SpecMain: a build order of two layers, "base" declaring A   *)
(* and "net" declaring B or nothing, in three families: conflict specs of  *)
(* every shape, required variables, and anchors with values that hold      *)
(* references.                                                             *)
(***************************************************************************)
MainNames == {"A", "B", "C", "IGROOT", "SRCROOT"}

ConflictSpecs == {<<>>, <<"B">>, <<"B=7">>, <<"B!=0">>, <<"when=1 B!=0">>,
                  <<"when=2 B">>, <<"C">>}

SetsB == TriggerRule(NoCond, "B", "7", "immediate")

Variable(name, value, required, policy, anchor, triggers, conflicts) ==
    EnvVariable(name, value, required, policy, "", 0, anchor, triggers, conflicts)

BuildOrder(a, bs) == <<[name |-> "base", vars |-> <<a>>], [name |-> "net", vars |-> bs]>>

ConflictRuns ==
    {BuildOrder(Variable("A", "1", FALSE, pa, Unset, <<>>, ca), bs) :
        pa \in {"immediate", "skip"}, ca \in ConflictSpecs,
        bs \in {<<>>} \cup
               {<<Variable("B", vb, FALSE, pb, Unset, <<>>, cb)>> :
                   vb \in {"7", "0", ""}, pb \in {"immediate", "skip"},
                   cb \in {<<>>, <<"A">>}}}

RequiredRuns ==
    {BuildOrder(Variable("A", va, TRUE, pa, Unset, ta, <<>>), bs) :
        va \in {"1", ""}, pa \in {"immediate", "lazy", "skip"},
        ta \in {<<>>, <<SetsB>>},
        bs \in {<<>>,
                <<Variable("B", "7", FALSE, "immediate", Unset, <<>>, <<>>)>>,
                <<Variable("B", "", TRUE, "immediate", Unset, <<>>, <<>>)>>}}

AnchorRuns ==
    {BuildOrder(Variable("A", va, FALSE, pa, aa, <<>>, <<>>), bs) :
        va \in {"1", "${U}", "${@r}", "${@IGROOT}"}, pa \in {"immediate", "force"},
        aa \in {Unset, "@r", "@IGROOT"},
        bs \in {<<>>} \cup
               {<<Variable("B", "7", FALSE, "immediate", ab, <<>>, <<>>)>> :
                   ab \in {Unset, "@R", "@r"}}}

\* both layers declare A, with conflict specs of their own
MergeRuns ==
    {BuildOrder(Variable("A", "1", FALSE, pa, Unset, <<>>, ca),
                <<Variable("A", "2", FALSE, pn, Unset, <<>>, cn),
                  Variable("B", "7", FALSE, "immediate", Unset, <<>>, <<>>)>>) :
        pa \in {"immediate", "lazy", "force"}, pn \in {"immediate", "lazy"},
        ca \in {<<>>, <<"C">>, <<"B">>}, cn \in {<<>>, <<"B">>, <<"B", "C">>}}

\* A declares two conflict specs on B
PairRuns ==
    {BuildOrder(Variable("A", "1", FALSE, "immediate", Unset, <<>>, ca),
                <<Variable("B", vb, FALSE, "immediate", Unset, <<>>, cb)>>) :
        ca \in {<<"B", "B!=0">>, <<"B=7", "B">>, <<"B=7", "when=1 B">>,
                <<"when=1 B!=0", "when=2 B=7">>},
        vb \in {"7", "0", ""}, cb \in {<<>>, <<"A">>}}

\* A declares a conflict on B and a rule that sets B; no layer declares B
TriggeredRuns ==
    {BuildOrder(Variable("A", "1", FALSE, pa, Unset, <<SetsB>>, <<"B">>), <<>>) :
        pa \in {"immediate", "force"}}

MainEnvFiles ==
    { <<>>,
      <<(<<"C", "7">>)>>,
      <<(<<"B", "2">>), (<<"IGROOT", "v">>)>>,
      <<(<<"IGROOT", "v">>), (<<"A", "2">>), (<<"SRCROOT", "w">>)>> }

MainEnvironments ==
    {[n \in MainNames |-> IF n = set THEN "7" ELSE Unset] : set \in {"", "A", "B"}}

InitMain ==
    /\ pc = "load_env"
    /\ layers \in ConflictRuns \cup RequiredRuns \cup AnchorRuns
                  \cup MergeRuns \cup PairRuns \cup TriggeredRuns
    /\ env_file \in MainEnvFiles
    /\ environ0 \in MainEnvironments
    /\ environ = environ0
    /\ assignments = <<>>
    /\ env_entry = <<>>
    /\ pass1 = <<>>
    /\ merged_defs = <<>>
    /\ resolved_variables = <<>>
    /\ applied = <<>>
    /\ args_order_out \in BOOLEAN
    /\ order_out = [written |-> FALSE, lines |-> <<>>]
    /\ reports = <<>>
    /\ failure = ""
    /\ ManagerIdle
    /\ ResolverIdle
    /\ ParserIdle

\* _pipeline_main, lines 88-90: _validate_resolved, and SystemExit(1) when it
\* returns False
ValidateResolved ==
    /\ pc = "validate_resolved"
    /\ \E out \in {_validate_resolved(layers, environ)} :
          /\ reports' = out.reports
          /\ IF out.ok
             THEN pc' = "write_layer_order" /\ failure' = failure
             ELSE pc' = "exit" /\ failure' = "validate_resolved"
    /\ UNCHANGED <<layers, env_file, environ0, environ, assignments, env_entry,
                   pass1, merged_defs, resolved_variables, applied,
                   args_order_out, order_out>>
    /\ UNCHANGED <<manager_vars, resolver_vars, parser_vars>>

\* _pipeline_main, lines 92-93
WriteLayerOrder ==
    /\ pc = "write_layer_order"
    /\ order_out' = IF args_order_out
                    THEN [written |-> TRUE, lines |-> _write_layer_order(layers)]
                    ELSE order_out
    /\ pc' = "resolve"
    /\ UNCHANGED <<layers, env_file, environ0, environ, assignments, env_entry,
                   pass1, merged_defs, resolved_variables, applied,
                   args_order_out, reports, failure>>
    /\ UNCHANGED <<manager_vars, resolver_vars, parser_vars>>

\* _pipeline_main, lines 95-118: the registry, the resolver, resolve_all, and
\* SystemExit on any of its errors
ResolveFinal ==
    /\ pc = "resolve"
    /\ \E self \in {resolver_final(layers, assignments, environ)} :
       \E out \in {resolve_all(self)} :
          /\ lr_assignments' = self.assignments
          /\ external_context' = self.external_context
          /\ preserve_anchors' = self.preserve_anchors
          /\ anchors' = out.self.anchors
          /\ cache' = out.self.cache
          /\ lr_call' = <<"resolve_all">>
          /\ lr_result' = Outcome(out)
          /\ IF out.raised = <<>>
             THEN lr_pc' = "resolved" /\ pc' = "write_env_file" /\ failure' = failure
             ELSE lr_pc' = "failed" /\ pc' = "exit" /\ failure' = "resolve"
    /\ UNCHANGED <<layers, env_file, environ0, environ, assignments, env_entry,
                   pass1, merged_defs, resolved_variables, applied,
                   args_order_out, order_out, reports>>
    /\ UNCHANGED <<manager_vars, env_out, file_vars, parser_vars>>

\* the last step, line 121, is WriteEnvFile
NextMain ==
    \/ SeedEnv
    \/ ValidateLayers
    \/ ApplyLayers
    \/ ValidateResolved
    \/ WriteLayerOrder
    \/ ResolveFinal
    \/ WriteEnvFile

SpecMain == InitMain /\ [][NextMain]_vars

-----------------------------------------------------------------------------
(***************************************************************************)
(* Claims about the whole pipeline.                                        *)
(***************************************************************************)
\* _validate_resolved has run
Validated ==
    /\ pc \in {"write_layer_order", "resolve", "write_env_file", "exit"}
    /\ failure # "validate_layers"

\* the run is over
RunOver == pc = "exit" \/ lr_pc = "written"

\* the definition that won for a declared name, NoVariable for any other
Winner(name) ==
    LET selected == Selected(layers, environ)
    IN  IF DictHas(selected, name) THEN DictGet(selected, name) ELSE NoVariable

\* the value of a name after considering the environment override
ValueInEffect(name) ==
    IF Current(environ, name) # Unset THEN environ[name]
    ELSE IF Winner(name) # NoVariable THEN Winner(name).value
    ELSE ""

EffectivelySet(name) == ValueInEffect(name) # ""

\* the conflict specs of the winning definition of a name, parsed
SpecsOf(name) ==
    {_parse_conflict_spec(c) : c \in Range(Winner(name).conflicts)} \ {NoSpec}

\* the spec applies to its declaring variable and is violated
SpecViolated(name, c) ==
    /\ EffectivelySet(name)
    /\ c.when = <<>> \/ c.when = Chars(ValueInEffect(name))
    /\ \/ c.op = ""   /\ EffectivelySet(Str(c.name))
       \/ c.op = "="  /\ Chars(ValueInEffect(Str(c.name))) = c.value
       \/ c.op = "!=" /\ Chars(ValueInEffect(Str(c.name))) # c.value

ConflictReports == {r \in Range(reports) : r.kind = "conflict"}

\* a conflict of the pair is among the [FAIL] lines
Reported(name, other) ==
    \E r \in ConflictReports : {r.var, r.other} = {name, other}

\* C12: once the resolved variables are validated, a conflict of V with N is
\* reported exactly when V is effectively set and one of V's conflict specs
\* on N, whose when-value is absent or is V's effective value, is violated (no
\* comparator: N is effectively set; '=': N's effective value is the spec's
\* value; '!=': it differs), and any reported conflict ends the run in failure.
C12_ConflictsReported ==
    Validated =>
        /\ \A name \in {"A", "B"} : \A c \in SpecsOf(name) :
              SpecViolated(name, c) => Reported(name, Str(c.name))
        /\ \A r \in ConflictReports :
              \E c \in SpecsOf(r.var) : Str(c.name) = r.other /\ SpecViolated(r.var, c)
        /\ ConflictReports # {} => failure = "validate_resolved"

\* C13: the validation that runs before the layers are applied ignores
\* missing required variables: the run fails in it only when a layer of the
\* build order fails validate_layer with ignore_missing_required, so a
\* Required variable that is not yet in the environment is left to the strict
\* validation after application.
C13_FirstPhaseIgnoresMissingRequired ==
    failure = "validate_layers" =>
        \E i \in DOMAIN layers : ~validate_layer(layers[i], environ, TRUE)

\* C14: a run that ends in failure has written none of its output files,
\* neither the env-out file nor the order-out file.
C14_NoOutputOnFailure ==
    failure # "" => ~order_out.written /\ ~env_out.written

\* the names of the written env file, in the order of its lines
WrittenNames == [i \in DOMAIN env_out.lines |-> env_out.lines[i][1]]

\* the names the layers applied that the input env file does not hold, in
\* order of application
AppliedOnly ==
    SelectSeq(DictKeys(applied), LAMBDA name : ~DictHas(env_file, name))

\* C15: the env file the pipeline writes has one line per key of the final
\* assignments: the keys of the input env file in their input order (a key a
\* layer overwrites keeps its place), then the variables the layers applied
\* that the input did not hold, in order of application, and no other name.
C15_EnvFileOrder ==
    (pc = "write_env_file" /\ env_out.written) =>
        /\ WrittenNames = [i \in DOMAIN env_file |-> Chars(env_file[i][1])]
                              \o [i \in DOMAIN AppliedOnly |-> Chars(AppliedOnly[i])]
        /\ WrittenNames = [i \in DOMAIN assignments |-> Chars(assignments[i][1])]

\* a forced A=1 overwrites the A=2 of the env file in place, and B is appended
C15_Witness ==
    /\ pc = "write_env_file"
    /\ env_file = <<(<<"IGROOT", "v">>), (<<"A", "2">>), (<<"SRCROOT", "w">>)>>
    /\ env_out = [written |-> TRUE,
                  lines |-> <<(<<Chars("IGROOT"), <<"v">>>>), (<<Chars("A"), <<"1">>>>),
                              (<<Chars("SRCROOT"), <<"w">>>>), (<<Chars("B"), <<"7">>>>)>>]

\* the variables of the build order that declare an anchor, in build order
Declaring ==
    SelectSeq(ConcatAll([i \in DOMAIN layers |-> layers[i].vars]),
              LAMBDA v : v.anchor_name \notin {Unset, ""})

\* the first variable of the build order whose anchor normalizes to `anchor'
FirstDeclaring(anchor) ==
    Declaring[CHOOSE i \in DOMAIN Declaring :
                 /\ normalize(Chars(Declaring[i].anchor_name)) = anchor
                 /\ \A j \in 1..(i - 1) :
                       normalize(Chars(Declaring[j].anchor_name)) # anchor]

\* the registry of the final resolution has been built
RegistryBuilt == lr_pc # "idle"

\* C16: in the registry used for the final resolution, an anchor that
\* variables of the build order declare, names compared after normalization,
\* is bound to the variable of the earliest declaration; a later declaration
\* never replaces the binding.
C16_AnchorFirstWins ==
    RegistryBuilt =>
        \A i \in DOMAIN Declaring :
            LET anchor == normalize(Chars(Declaring[i].anchor_name))
            IN  /\ DictHas(anchors, anchor)
                /\ DictGet(anchors, anchor).var = Chars(FirstDeclaring(anchor).name)

\* C17: whenever IGROOT, or SRCROOT, has a non-empty value in the assignments,
\* the registry used for the final resolution holds @IGROOT, or @SRCROOT,
\* bound to that variable with that value, whatever the layers declare.
C17_RootAnchorsInjected ==
    RegistryBuilt =>
        \A root \in {"IGROOT", "SRCROOT"} :
            (DictHas(assignments, root) /\ DictGet(assignments, root) # "") =>
                /\ DictHas(anchors, <<"@">> \o Chars(root))
                /\ DictGet(anchors, <<"@">> \o Chars(root)).var = Chars(root)
                /\ DictGet(anchors, <<"@">> \o Chars(root)).value
                       = <<Chars(DictGet(assignments, root))>>

-----------------------------------------------------------------------------
(***************************************************************************)
(* layer_manager.py, LayerManager.__init__ and load_layers.  A candidate   *)
(* file is [path, stem, name, kind, generator]: `path' is its path under   *)
(* the search root, `name' the X-Env-Layer-Name its header holds, `kind'   *)
(* what loading it meets, `generator' what its generator command does.     *)
(* `self' is [layers, load_errors, layer_files, layer_tags,                *)
(* generator_runs]; a file is [root, rel], the tag of its root and its     *)
(* path under it.  get_layer_info() raises nothing, so the branch of       *)
(* load_layers that catches its ValueError has no file that takes it.      *)
(***************************************************************************)
\* d[key] = value on a dict kept as a function
Put(d, key, value) ==
    [k \in DOMAIN d \cup {key} |-> IF k = key THEN value ELSE d[k]]

\* the failure is reported but not recorded
BuggyHandleLayerLoadError(errors, rel_path, message, layer_name) == errors

\* the load_errors that _handle_layer_load_error leaves; layer_name is "" for
\* None
_handle_layer_load_error(errors, rel_path, message, layer_name) ==
    Put(Put(errors, IF layer_name # "" THEN layer_name ELSE rel_path, message),
        rel_path, message)

\* the tag of the search root that holds the candidate files
SourceTag == "layer"

\* meta.get_layer_info() of a file that holds a complete layer: the layer
\* named a requires b
LayerInfo(file) ==
    [depends |-> IF file.name = "a" THEN <<"b">> ELSE <<>>,
     provides |-> <<>>, provider_requires |-> <<>>]

\* the end of load_layers' loop body: the layer is registered
Register(self, file, abs_file, tag) ==
    [self EXCEPT !.layers = Put(@, file.name, LayerInfo(file)),
                 !.layer_files = Put(@, file.name, abs_file),
                 !.layer_tags = Put(@, file.name, tag)]

\* the source file is registered without its generator being run
BuggyGenerateLayer(self, file, tags) ==
    [self |-> Register(self, file, [root |-> SourceTag, rel |-> file.path], SourceTag),
     raised |-> <<>>]

\* _ensure_generated_root and _run_layer_generator for a dynamic layer
\* outside doc mode, then the registration: [self, raised]
GenerateLayer(self, file, tags) ==
    LET source == [root |-> SourceTag, rel |-> file.path]
        output == [root |-> "DYNlayer", rel |-> file.path]
        ran    == [self EXCEPT !.generator_runs =
                                   Append(@, <<file.name, source, output>>)]
    IN  IF "DYNlayer" \notin tags
        THEN [self |-> self,
              raised |-> <<Raised("ValueError", "no_generated_root", <<>>)>>]
        ELSE IF file.generator = "absent"
        THEN [self |-> self,
              raised |-> <<Raised("ValueError", "generator_not_found",
                                  <<file.name>>)>>]
        ELSE IF file.generator = "failing"
        THEN [self |-> ran,
              raised |-> <<Raised("ValueError", "generator_failed",
                                  <<file.name>>)>>]
        ELSE [self |-> Register(ran, file, output, "DYNlayer"), raised |-> <<>>]

\* the body of load_layers' loop over all_files, for one file: [self, raised]
LoadFile(self, file, doc, tags) ==
    LET Skip(errors) ==
            [self |-> [self EXCEPT !.load_errors = errors], raised |-> <<>>]
    IN  IF file.kind = "unresolved" /\ ~doc
        THEN Skip(Put(self.load_errors, file.path,
                      <<"Unresolved environment variables">>))
        ELSE IF file.kind = "parse_error"
        THEN Skip(_handle_layer_load_error(self.load_errors, file.path,
                      <<"Failed to load layer file", file.path>>, ""))
        ELSE IF file.kind = "no_layer" THEN Skip(self.load_errors)
        ELSE IF file.kind = "incomplete"
        THEN Skip(_handle_layer_load_error(self.load_errors, file.path,
                      <<"Incomplete X-Env-Layer metadata">>, file.stem))
        ELSE IF file.kind = "lint_error"
        THEN Skip(_handle_layer_load_error(self.load_errors, file.path,
                      <<"failed lint", file.name, file.path>>, file.name))
        ELSE IF file.name \in DOMAIN self.layers
        THEN [self |-> self,
              raised |-> <<Raised("ValueError", "duplicate_layer",
                                  <<file.name, self.layer_files[file.name],
                                    [root |-> SourceTag, rel |-> file.path]>>)>>]
        ELSE IF file.kind = "dynamic" /\ ~doc THEN GenerateLayer(self, file, tags)
        ELSE [self |-> Register(self, file, [root |-> SourceTag, rel |-> file.path],
                                SourceTag),
              raised |-> <<>>]

(***************************************************************************)
(* The search roots exercised: one source root holding a.yaml, b.yaml and  *)
(* c.yaml, met in that order, with or without a DYNlayer root.  c.yaml may *)
(* name its layer a.                                                       *)
(***************************************************************************)
FileKinds ==
    {[kind |-> k, generator |-> ""] :
        k \in {"static", "parse_error", "unresolved", "no_layer", "incomplete",
               "lint_error"}}
    \cup {[kind |-> "dynamic", generator |-> g] : g \in {"runs", "absent", "failing"}}

Candidate(stem, path, name, k) ==
    [path |-> path, stem |-> stem, name |-> name, kind |-> k.kind,
     generator |-> k.generator]

CandidateLists ==
    {<<Candidate("a", "a.yaml", "a", ka), Candidate("b", "b.yaml", "b", kb),
       Candidate("c", "c.yaml", nc, kc)>> :
        ka \in FileKinds, kb \in FileKinds, kc \in FileKinds, nc \in {"c", "a"}}

LoadTargets == {<<"a">>, <<"b">>, <<"c">>}

LoaderSelf ==
    [layers |-> lm_layers, load_errors |-> load_errors, layer_files |-> layer_files,
     layer_tags |-> layer_tags, generator_runs |-> generator_runs]

InitLoad ==
    /\ PipelineIdle
    /\ ResolverIdle
    /\ ParserIdle
    /\ candidates \in CandidateLists
    /\ doc_mode \in BOOLEAN
    /\ tag_to_path \in {{SourceTag}, {SourceTag, "DYNlayer"}}
    /\ file_pos = 1
    /\ layer_files = <<>>
    /\ layer_tags = <<>>
    /\ generator_runs = <<>>
    /\ lm_layers = <<>>
    /\ load_errors = <<>>
    /\ target_layers \in LoadTargets
    /\ lm_pc = "loading"
    /\ lm_call = <<>>
    /\ lm_result = Returned(<<>>)

\* one turn of load_layers' loop; an exception leaves __init__
LoadLayerFile ==
    /\ lm_pc = "loading"
    /\ file_pos <= Len(candidates)
    /\ \E out \in {LoadFile(LoaderSelf, candidates[file_pos], doc_mode, tag_to_path)} :
          /\ lm_layers' = out.self.layers
          /\ load_errors' = out.self.load_errors
          /\ layer_files' = out.self.layer_files
          /\ layer_tags' = out.self.layer_tags
          /\ generator_runs' = out.self.generator_runs
          /\ IF out.raised = <<>>
             THEN /\ file_pos' = file_pos + 1
                  /\ UNCHANGED <<lm_pc, lm_result>>
             ELSE /\ lm_pc' = "aborted"
                  /\ lm_result' = out.raised[1]
                  /\ UNCHANGED file_pos
    /\ UNCHANGED <<candidates, doc_mode, tag_to_path, target_layers, lm_call>>
    /\ UNCHANGED <<pipeline_vars, resolver_vars, parser_vars>>

\* __init__ after load_layers returned: the manager is constructed
Constructed ==
    /\ lm_pc = "loading"
    /\ file_pos > Len(candidates)
    /\ lm_pc' = "idle"
    /\ UNCHANGED <<lm_layers, load_errors, target_layers, lm_call, lm_result,
                   loader_vars>>
    /\ UNCHANGED <<pipeline_vars, resolver_vars, parser_vars>>

NextLoad == LoadLayerFile \/ Constructed \/ GetBuildOrder

SpecLoad == InitLoad /\ [][NextLoad]_vars

-----------------------------------------------------------------------------
(***************************************************************************)
(* Claims about discovery.                                                 *)
(***************************************************************************)
\* the file failed to load: its parse, its layer fields or its lint failed
FailedToLoad(file) ==
    \/ file.kind \in {"parse_error", "incomplete", "lint_error"}
    \/ file.kind = "unresolved" /\ ~doc_mode

\* the layer a file stands for: the name in its header, or the file's stem
\* when the header has no name
LayerOf(file) == IF file.kind = "incomplete" THEN file.stem ELSE file.name

\* the requested layers and the layers they transitively require
Needed ==
    UNION {{target_layers[i]}
               \cup Range(get_all_dependencies(lm_layers, target_layers[i], {})) :
           i \in DOMAIN target_layers}

\* the files that failed to load whose layer the request needs
NeededFailures ==
    {i \in DOMAIN candidates :
        /\ FailedToLoad(candidates[i])
        /\ LayerOf(candidates[i]) \in Needed
        /\ LayerOf(candidates[i]) \notin DOMAIN lm_layers}

BuildOrderCalled == lm_pc = "returned" /\ lm_call[1] = "get_build_order"

\* C18: when a requested layer, or a layer it transitively requires, belongs
\* to a file that failed to load, get_build_order fails and its error carries
\* the reason captured for that file during discovery.
C18_FailedFileReported ==
    (BuildOrderCalled /\ NeededFailures # {}) =>
        /\ lm_result.raises = "ValueError"
        /\ lm_result.error = "unavailable"
        /\ \E i \in NeededFailures :
              lm_result.detail
                  = <<LayerOf(candidates[i]), load_errors[candidates[i].path]>>

\* load_layers' loop has gone past candidate i
Processed(i) == file_pos > i \/ (file_pos = i /\ lm_pc = "aborted")

\* a layer is registered from the candidate
RegisteredFrom(file) ==
    \E name \in DOMAIN layer_files : layer_files[name].rel = file.path

\* __init__ returned a manager
ManagerConstructed == lm_pc \in {"idle", "returned"}

\* C19: a candidate file whose parse, layer fields or lint fail gets an entry
\* in load_errors and stays out of the layers map, and load_layers goes on:
\* the failing file never ends construction, and the manager that is
\* constructed holds every file that loads.
C19_FailuresRecordedAndSkipped ==
    /\ \A i \in DOMAIN candidates :
          (Processed(i) /\ FailedToLoad(candidates[i])) =>
              /\ candidates[i].path \in DOMAIN load_errors
              /\ ~RegisteredFrom(candidates[i])
              /\ file_pos > i
    /\ ManagerConstructed =>
          \A i \in DOMAIN candidates :
              (~FailedToLoad(candidates[i]) /\ candidates[i].kind # "no_layer") =>
                  RegisteredFrom(candidates[i])

\* b.yaml fails to parse between a.yaml and c.yaml, which both load
C19_Witness ==
    /\ ManagerConstructed
    /\ candidates[2].kind = "parse_error"
    /\ load_errors = [k \in {"b.yaml"} |-> <<"Failed to load layer file", "b.yaml">>]
    /\ DOMAIN lm_layers = {"a", "c"}

\* the generator runs for the candidate
RunsOf(file) ==
    SelectSeq(generator_runs, LAMBDA run : run[2].rel = file.path)

\* no earlier candidate registered the candidate's name
FirstOfName(i) ==
    \A j \in 1..(i - 1) :
        RegisteredFrom(candidates[j]) => candidates[j].name # candidates[i].name

\* the candidate is a dynamic layer that passes lint
Dynamic(file) == file.kind = "dynamic"

\* C20: outside doc mode the generator of a dynamic layer is run once, on the
\* source file and the file at the same relative path under the DYNlayer
\* root, after lint and the duplicate-name check and before the layer is
\* registered with tag DYNlayer and that file; a missing executable, a
\* non-zero exit or a missing DYNlayer root ends construction with an error
\* and the layer unregistered.  In doc mode no generator runs and the layer
\* keeps the tag of its source root.
C20_DynamicLayers ==
    /\ doc_mode => generator_runs = <<>>
    /\ \A i \in DOMAIN generator_runs :
          \E k \in DOMAIN candidates :
              /\ Dynamic(candidates[k]) /\ FirstOfName(k) /\ Processed(k)
              /\ generator_runs[i]
                     = <<candidates[k].name,
                         [root |-> SourceTag, rel |-> candidates[k].path],
                         [root |-> "DYNlayer", rel |-> candidates[k].path]>>
    /\ \A k \in DOMAIN candidates :
          LET file == candidates[k]
          IN  (Dynamic(file) /\ Processed(k)) =>
                 /\ Len(RunsOf(file)) <= 1
                 /\ RegisteredFrom(file) =>
                       /\ file.name \in DOMAIN lm_layers
                       /\ IF doc_mode
                          THEN /\ layer_tags[file.name] = SourceTag
                               /\ layer_files[file.name]
                                      = [root |-> SourceTag, rel |-> file.path]
                          ELSE /\ Len(RunsOf(file)) = 1
                               /\ layer_tags[file.name] = "DYNlayer"
                               /\ layer_files[file.name]
                                      = [root |-> "DYNlayer", rel |-> file.path]
                 /\ (/\ ~doc_mode
                     /\ \/ file.generator \in {"absent", "failing"}
                        \/ "DYNlayer" \notin tag_to_path) =>
                       /\ ~RegisteredFrom(file)
                       /\ lm_pc = "aborted"
                       /\ file_pos = k
                       /\ lm_result.raises = "ValueError"

\* outside doc mode, b.yaml is dynamic and its generator ran
C20_Witness ==
    /\ ManagerConstructed
    /\ ~doc_mode
    /\ candidates[2].kind = "dynamic"
    /\ generator_runs = <<(<<"b", [root |-> SourceTag, rel |-> "b.yaml"],
                             [root |-> "DYNlayer", rel |-> "b.yaml"]>>)>>
    /\ layer_tags["b"] = "DYNlayer"

-----------------------------------------------------------------------------
(***************************************************************************)
(* env_resolver.py, resolve_env_file: load_env_file, the registry of the   *)
(* manifest, resolve_all, write_env_file.  SpecFile runs it on an input    *)
(* file, and then on the file it wrote, with the same manifest, flag and   *)
(* external context.  A file is the sequence of its lines, each a text.    *)
(***************************************************************************)
\* value[1:-1] `if len(value) >= 2 and value[0] == value[-1] == '"''
Unquote(value) ==
    IF Len(value) >= 2 /\ value[1] = "\"" /\ value[Len(value)] = "\""
    THEN SubSeq(value, 2, Len(value) - 1)
    ELSE value

\* the loop of load_env_file over `lines', `ordered' being its OrderedDict
RECURSIVE LoadLines(_, _)
LoadLines(lines, ordered) ==
    IF lines = <<>> THEN Returned(ordered)
    ELSE Only({
        IF stripped = <<>> \/ stripped[1] = "#" THEN LoadLines(Tail(lines), ordered)
        ELSE IF Find(stripped, <<"=">>) = 0
        THEN Raised("AssignmentError", "expected_key_value", <<>>)
        ELSE Only({
            IF ~_VALID_VAR(pair[1])
            THEN Raised("AssignmentError", "invalid_name", <<pair[1]>>)
            ELSE LoadLines(Tail(lines), DictPut(ordered, pair[1], Unquote(pair[2])))
            : pair \in {<<Strip(SubSeq(stripped, 1, Find(stripped, <<"=">>) - 1)),
                          Strip(SubSeq(stripped, Find(stripped, <<"=">>) + 1,
                                       Len(stripped)))>>} })
        : stripped \in {Strip(Head(lines))} })

load_env_file(lines) == LoadLines(lines, <<>>)

\* f"{name}={value}\n", the line write_env_file writes for a name
FormatLine(name, value) == name \o <<"=">> \o value

\* the file write_env_file leaves, as load_env_file reads it
FileOf(out) == [i \in DOMAIN out.lines |-> FormatLine(out.lines[i][1], out.lines[i][2])]

\* LazyEnvResolver(assignments, external_context=..., anchor_registry=
\* AnchorRegistry(preload), preserve_anchors=...)
FileResolver(loaded, preload, external, preserve) ==
    [assignments |-> loaded, external_context |-> external,
     anchors |-> AnchorRegistry_init(preload, <<>>),
     preserve_anchors |-> preserve, cache |-> <<>>]

\* resolve_env_file(env_in, env_out, None, ...): the resolver it leaves, what
\* resolve_all returned or what was raised, and the env_out file
resolve_env_file(lines, out_file, preload, external, preserve) ==
    Only({
        IF loaded.raises # ""
        THEN [self |-> FileResolver(<<>>, <<>>, external, preserve),
              result |-> loaded, env_out |-> out_file]
        ELSE Only({
            [self |-> out.self, result |-> Outcome(out),
             env_out |-> IF out.raised = <<>>
                         THEN [written |-> TRUE,
                               lines |-> write_env_file(loaded.value, out.value)]
                         ELSE out_file]
            : out \in {resolve_all(FileResolver(loaded.value, preload, external,
                                                preserve))} })
        : loaded \in {load_env_file(lines)} })

(***************************************************************************)
(* The files resolved: one or two assignments of A and B, with plain,      *)
(* quoted and referencing values, and the lines load_env_file skips or     *)
(* rejects.                                                                *)
(***************************************************************************)
Quoted(text) == <<"\"">> \o text \o <<"\"">>

FileValues ==
    { <<"v">>, <<>>, Ref(NameB), Ref(NameX), Ref(<<"@", "r">>),
      Quoted(<<"v">>), Quoted(Quoted(<<"v">>)), <<"v", " ", "w">> }

InputFiles ==
    {<<FormatLine(NameA, a)>> : a \in FileValues}
    \cup {<<FormatLine(NameA, a), FormatLine(NameB, b)>> :
             a \in FileValues, b \in FileValues}
    \cup {<<FormatLine(NameB, b), FormatLine(NameA, a)>> :
             a \in FileValues, b \in {<<"v">>, Ref(NameA)}}
    \cup { <<(<<"#", " ", "A", "=", "w">>), <<>>, (<<" ", "A", " ", "=", " ", "v", " ">>)>>,
           <<(<<"A">>)>>,
           <<(<<"1", "A", "=", "v">>)>>,
           <<(<<"A", "=", "v">>), (<<"A", "=", "w">>)>> }

FileContexts ==
    { <<(<<NameX, <<"w">>>>)>>,
      <<(<<NameX, Ref(NameA)>>)>>,
      <<(<<NameX, Ref(NameU)>>)>>,
      <<(<<NameX, <<" ", "w">>>>)>> }

Manifests ==
    { <<>>,
      <<(<<"@r", [var |-> "B", value |-> Unset]>>)>>,
      <<(<<"@r", [var |-> Unset, value |-> "w"]>>)>>,
      <<(<<"@r", [var |-> "A", value |-> "${B}"]>>)>> }

InitFile ==
    /\ PipelineIdle
    /\ ManagerIdle
    /\ ParserIdle
    /\ env_in \in InputFiles
    /\ anchor_in \in Manifests
    /\ external_context \in FileContexts
    /\ preserve_anchors \in BOOLEAN
    /\ lr_assignments = <<>>
    /\ anchors = <<>>
    /\ cache = <<>>
    /\ lr_pc = "ready"
    /\ lr_call = <<>>
    /\ lr_result = Returned(<<>>)
    /\ env_out = [written |-> FALSE, lines |-> <<>>]

\* resolve_env_file(env_in, env_out, ...)
ResolveEnvFile ==
    /\ lr_pc = "ready"
    /\ \E run \in {resolve_env_file(env_in, env_out, anchor_in, external_context,
                                    preserve_anchors)} :
          /\ lr_assignments' = run.self.assignments
          /\ anchors' = run.self.anchors
          /\ cache' = run.self.cache
          /\ lr_call' = <<"resolve_env_file", "env_in">>
          /\ lr_result' = run.result
          /\ env_out' = run.env_out
          /\ lr_pc' = IF run.result.raises = "" THEN "written" ELSE "failed"
    /\ UNCHANGED <<external_context, preserve_anchors, file_vars>>
    /\ UNCHANGED <<pipeline_vars, manager_vars, parser_vars>>

\* resolve_env_file(env_out, ...) on the file the first call wrote; the
\* file this call writes holds the values lr_result holds
ResolveAgain ==
    /\ lr_pc = "written"
    /\ \E run \in {resolve_env_file(FileOf(env_out), env_out, anchor_in,
                                    external_context, preserve_anchors)} :
          /\ lr_assignments' = run.self.assignments
          /\ anchors' = run.self.anchors
          /\ cache' = run.self.cache
          /\ lr_call' = <<"resolve_env_file", "env_out">>
          /\ lr_result' = run.result
          /\ lr_pc' = IF run.result.raises = "" THEN "rewritten" ELSE "refailed"
    /\ UNCHANGED <<external_context, preserve_anchors, env_out, file_vars>>
    /\ UNCHANGED <<pipeline_vars, manager_vars, parser_vars>>

NextFile == ResolveEnvFile \/ ResolveAgain

SpecFile == InitFile /\ [][NextFile]_vars

-----------------------------------------------------------------------------
(***************************************************************************)
(* Claims about resolve_env_file.                                          *)
(***************************************************************************)
ResolvedAgain == lr_pc \in {"rewritten", "refailed"}

\* C21: resolving the file resolve_env_file wrote, with the same manifest,
\* flag and external context, succeeds and gives every name the value the
\* file already holds.
C21_ResolveIdempotent ==
    ResolvedAgain =>
        /\ lr_pc = "rewritten"
        /\ \A i \in DOMAIN env_out.lines :
              /\ DictHas(lr_result.value, env_out.lines[i][1])
              /\ DictGet(lr_result.value, env_out.lines[i][1]) = env_out.lines[i][2]

-----------------------------------------------------------------------------
(***************************************************************************)
(* metadata_parser.py: the header fields accepted, and the lint of a       *)
(* header.  A field name is a text, so that prefixes, suffixes and dashes  *)
(* are found the way the string methods find them.  A header (the          *)
(* raw_metadata of a file) is the sequence of its field names; the headers *)
(* of SpecLint hold well-formed values throughout (a non-empty layer name  *)
(* and prefix, rules parse_validator accepts, specifiers                   *)
(* EnvVariable.from_metadata_fields accepts), so that what happens to a    *)
(* file is decided by the names of its fields.                             *)
(***************************************************************************)
startswith(text, prefix) ==
    Len(prefix) <= Len(text) /\ SubSeq(text, 1, Len(prefix)) = prefix

endswith(text, suffix) ==
    /\ Len(suffix) <= Len(text)
    /\ SubSeq(text, Len(text) - Len(suffix) + 1, Len(text)) = suffix

\* text[start:] for a start within the text
From(text, start) == SubSeq(text, start + 1, Len(text))

\* text[start:-n] for n > 0: empty when the two ends meet
Between(text, start, n) == SubSeq(text, start + 1, Len(text) - n)

HasDash(text) == "-" \in Range(text)

\* text.split('-')[0]
BeforeDash(text) ==
    IF HasDash(text) THEN SubSeq(text, 1, Find(text, <<"-">>) - 1) ELSE text

\* str.lower on the characters in which the names of the run differ
Lower(c) ==
    IF c = "A" THEN "a" ELSE IF c = "B" THEN "b" ELSE IF c = "D" THEN "d" ELSE c

lower(text) == [i \in DOMAIN text |-> Lower(text[i])]

XEnvPrefix == <<"X", "-", "E", "n", "v", "-">>

VAR_PREFIX == XEnvPrefix \o <<"V", "a", "r", "-">>

LAYER_PREFIX == XEnvPrefix \o <<"L", "a", "y", "e", "r", "-">>

var_prefix == XEnvPrefix \o <<"V", "a", "r", "P", "r", "e", "f", "i", "x">>

layer_name == LAYER_PREFIX \o <<"N", "a", "m", "e">>

var_requires == XEnvPrefix \o <<"V", "a", "r", "R", "e", "q", "u", "i", "r", "e", "s">>

var_optional == XEnvPrefix \o <<"V", "a", "r", "O", "p", "t", "i", "o", "n", "a", "l">>

ValidSuffix == <<"-", "V", "a", "l", "i", "d">>

\* the "single" keys of SUPPORTED_FIELD_PATTERNS
SingleFields ==
    {var_prefix, layer_name}
    \cup {LAYER_PREFIX \o f : f \in {<<"D", "e", "s", "c">>,
                                      <<"V", "e", "r", "s", "i", "o", "n">>,
                                      <<"R", "e", "q", "u", "i", "r", "e", "s">>,
                                      <<"C", "o", "n", "f", "l", "i", "c", "t", "s">>,
                                      <<"C", "a", "t", "e", "g", "o", "r", "y">>,
                                      <<"T", "y", "p", "e">>,
                                      <<"G", "e", "n", "e", "r", "a", "t", "o", "r">>,
                                      <<"P", "r", "o", "v", "i", "d", "e", "s">>,
                                      <<"R", "e", "q", "u", "i", "r", "e", "s", "P", "r", "o", "v", "i", "d", "e", "r">>}}
    \cup {var_requires, var_requires \o ValidSuffix,
          var_optional, var_optional \o ValidSuffix}

\* the suffixes of the "pattern" keys X-Env-Var-*<suffix>
PatternSuffixes ==
    <<<<"-", "D", "e", "s", "c">>,
      <<"-", "R", "e", "q", "u", "i", "r", "e", "d">>,
      <<"-", "V", "a", "l", "i", "d">>,
      <<"-", "S", "e", "t">>,
      <<"-", "A", "n", "c", "h", "o", "r">>,
      <<"-", "C", "o", "n", "f", "l", "i", "c", "t", "s">>,
      <<"-", "T", "r", "i", "g", "g", "e", "r", "s">>>>

\* is_field_supported over the keys of SUPPORTED_FIELD_PATTERNS: exact names,
\* the base pattern "X-Env-Var-" and the attribute patterns
is_field_supported(field_name) ==
    \/ field_name \in SingleFields \cup {VAR_PREFIX}
    \/ startswith(field_name, VAR_PREFIX) /\ ~HasDash(From(field_name, Len(VAR_PREFIX)))
    \/ \E k \in DOMAIN PatternSuffixes :
          /\ startswith(field_name, VAR_PREFIX)
          /\ endswith(field_name, PatternSuffixes[k])
          /\ Between(field_name, Len(VAR_PREFIX), Len(PatternSuffixes[k])) # <<>>
          /\ ~HasDash(Between(field_name, Len(VAR_PREFIX), Len(PatternSuffixes[k])))

is_var_field(field_name) == startswith(field_name, VAR_PREFIX)

is_layer_field(field_name) == startswith(field_name, LAYER_PREFIX)

is_base_var_field(field_name) ==
    is_var_field(field_name) /\ ~HasDash(From(field_name, Len(VAR_PREFIX)))

extract_var_name(field_name) == From(field_name, Len(VAR_PREFIX))

extract_base_var_name(field_name) == BeforeDash(From(field_name, Len(VAR_PREFIX)))

\* a lint result: its status and what it is about (the key of the dict)
LintEntry(status, subject) == <<status, subject>>

_check_unsupported_fields(raw_metadata) ==
    {f \in Range(raw_metadata) : is_var_field(f) /\ ~is_field_supported(f)}

_check_unsupported_layer_fields(raw_metadata) ==
    {f \in Range(raw_metadata) : is_layer_field(f) /\ ~is_field_supported(f)}

_collect_schema_errors(raw_metadata) ==
    {LintEntry("unsupported_field", f) :
        f \in _check_unsupported_layer_fields(raw_metadata)
              \cup _check_unsupported_fields(raw_metadata)}

\* the suffixes _validate_prefix_and_orphans looks for, in its order
OrphanSuffixes ==
    <<<<"-", "D", "e", "s", "c">>,
      <<"-", "V", "a", "l", "i", "d">>,
      <<"-", "R", "e", "q", "u", "i", "r", "e", "d">>,
      <<"-", "S", "e", "t">>,
      <<"-", "A", "n", "c", "h", "o", "r">>,
      <<"-", "C", "o", "n", "f", "l", "i", "c", "t", "s">>>>

\* attribute_vars of _validate_prefix_and_orphans
AttributeVars(raw_metadata) ==
    {lower(Between(extract_var_name(key), 0, Len(OrphanSuffixes[k]))) :
        <<key, k>> \in
            {<<f, j>> \in Range(raw_metadata) \X DOMAIN OrphanSuffixes :
                /\ is_var_field(f) /\ is_field_supported(f) /\ ~is_base_var_field(f)
                /\ endswith(f, OrphanSuffixes[j])
                /\ \A m \in 1..(j - 1) :
                      ~endswith(extract_var_name(f), OrphanSuffixes[m])}}

\* base_vars of _validate_prefix_and_orphans
BaseVars(raw_metadata) ==
    {lower(extract_base_var_name(f)) :
        f \in {g \in Range(raw_metadata) :
                  is_var_field(g) /\ is_field_supported(g) /\ is_base_var_field(g)}}

\* self._container.variables is not empty: the header holds a base field
HasVariables(raw_metadata) == \E f \in Range(raw_metadata) : is_base_var_field(f)

_validate_prefix_and_orphans(raw_metadata) ==
    IF HasVariables(raw_metadata) /\ var_prefix \notin Range(raw_metadata)
    THEN {LintEntry("missing_var_prefix", <<>>)}
    ELSE {LintEntry("orphaned_attributes", varname) :
             varname \in AttributeVars(raw_metadata) \ BaseVars(raw_metadata)}

lint_metadata_syntax(raw_metadata) ==
    IF \A f \in Range(raw_metadata) : ~startswith(f, XEnvPrefix)
    THEN {LintEntry("no_metadata_fields", <<>>)}
    ELSE _collect_schema_errors(raw_metadata)
         \cup (IF /\ \E f \in Range(raw_metadata) : is_layer_field(f)
                  /\ layer_name \notin Range(raw_metadata)
               THEN {LintEntry("missing_layer_name", <<>>)} ELSE {})
         \cup _validate_prefix_and_orphans(raw_metadata)

\* EnvLayer._validate_layer_fields, called when the header names a layer:
\* the X-Env-Layer-* fields that make Metadata(...) raise ValueError
UnsupportedLayerFields(raw_metadata) ==
    IF layer_name \in Range(raw_metadata)
    THEN {f \in Range(raw_metadata) :
             is_layer_field(f) /\ f \notin SingleFields \cup {VAR_PREFIX}}
    ELSE {}

\* load_layers on a static file with this header: what becomes of the file
LoadHeader(raw_metadata) ==
    IF UnsupportedLayerFields(raw_metadata) # {} THEN "parse_error"
    ELSE IF layer_name \notin Range(raw_metadata)
    THEN IF \E f \in Range(raw_metadata) : is_layer_field(f)
         THEN "incomplete" ELSE "no_layer"
    ELSE IF lint_metadata_syntax(raw_metadata) # {} THEN "lint_error"
    ELSE "loaded"

(***************************************************************************)
(* The headers linted: a layer name and a prefix, each present or not, and *)
(* up to two more fields: base variables, attributes of every suffix with  *)
(* and without their base, and names outside the schema.  The parser keeps *)
(* one field per name, names compared without case.                        *)
(***************************************************************************)
VarNamesLinted == {<<"a">>, <<"A">>, <<"b">>}

AttributeSuffixes ==
    {<<"-", "D", "e", "s", "c">>,
     <<"-", "R", "e", "q", "u", "i", "r", "e", "d">>,
     <<"-", "V", "a", "l", "i", "d">>,
     <<"-", "S", "e", "t">>,
     <<"-", "A", "n", "c", "h", "o", "r">>,
     <<"-", "C", "o", "n", "f", "l", "i", "c", "t", "s">>,
     <<"-", "T", "r", "i", "g", "g", "e", "r", "s">>}

ExtraFields ==
    {VAR_PREFIX \o n : n \in VarNamesLinted}
    \cup {VAR_PREFIX \o <<"a">> \o s : s \in AttributeSuffixes}
    \cup { VAR_PREFIX \o <<"a", "-", "b", "-", "D", "e", "s", "c">>,
           VAR_PREFIX \o <<"a", "-", "B", "a", "r">>,
           VAR_PREFIX \o <<"a", "-", "d", "e", "s", "c">>,
           VAR_PREFIX \o <<"-", "D", "e", "s", "c">>,
           XEnvPrefix \o <<"B", "o", "g", "u", "s">>,
           XEnvPrefix \o <<"V", "a", "r", "F", "o", "o">>,
           var_requires, var_optional \o ValidSuffix,
           var_optional \o <<"-", "B", "o", "g", "u", "s">>,
           LAYER_PREFIX \o <<"D", "e", "s", "c">>,
           LAYER_PREFIX \o <<"B", "o", "g", "u", "s">> }

Headers ==
    {base \o extra :
        base \in {<<>>, <<layer_name>>, <<var_prefix>>, <<layer_name, var_prefix>>},
        extra \in {<<>>} \cup {<<f>> : f \in ExtraFields}
                  \cup {p \in ExtraFields \X ExtraFields : lower(p[1]) # lower(p[2])}}

NotLinted == [linted |-> FALSE, results |-> {}]

InitLint ==
    /\ PipelineIdle
    /\ ResolverIdle
    /\ LoaderIdle
    /\ header \in Headers \ {<<>>}
    /\ lint_result = NotLinted
    /\ lm_layers = <<>>
    /\ load_errors = <<>>
    /\ target_layers = <<>>
    /\ lm_pc = "loading"
    /\ lm_call = <<>>
    /\ lm_result = <<>>

\* Metadata(file).lint_metadata_syntax(), on a header Metadata(...) accepts
LintMetadataSyntax ==
    /\ lint_result = NotLinted
    /\ UnsupportedLayerFields(header) = {}
    /\ lint_result' = [linted |-> TRUE, results |-> lint_metadata_syntax(header)]
    /\ UNCHANGED <<header, manager_vars>>
    /\ UNCHANGED <<pipeline_vars, resolver_vars>>

\* load_layers meets the file: lm_result is what became of it
LoadLayerHeader ==
    /\ lm_pc = "loading"
    /\ lm_result' = LoadHeader(header)
    /\ lm_pc' = "idle"
    /\ UNCHANGED <<lm_layers, load_errors, target_layers, lm_call, loader_vars>>
    /\ UNCHANGED <<pipeline_vars, resolver_vars, parser_vars>>

NextLint == LintMetadataSyntax \/ LoadLayerHeader

SpecLint == InitLint /\ [][NextLint]_vars

-----------------------------------------------------------------------------
(***************************************************************************)
(* Claims about the header schema, stated on the field names.              *)
(***************************************************************************)
Linted == lint_result.linted

FileMet == lm_pc = "idle"

\* the variable names (lowered) of the attribute fields X-Env-Var-<NAME><suffix>
\* of a header, for the seven suffixes
AttributeNames(raw_metadata) ==
    {lower(Between(p[1], Len(VAR_PREFIX), Len(p[2]))) :
        p \in {q \in Range(raw_metadata) \X AttributeSuffixes :
                  /\ startswith(q[1], VAR_PREFIX) /\ endswith(q[1], q[2])
                  /\ Between(q[1], Len(VAR_PREFIX), Len(q[2])) # <<>>
                  /\ ~HasDash(Between(q[1], Len(VAR_PREFIX), Len(q[2])))}}

\* the names that have attribute fields and no base field X-Env-Var-<NAME>
Orphaned(raw_metadata) ==
    {n \in AttributeNames(raw_metadata) :
        \A f \in Range(raw_metadata) : lower(f) # lower(VAR_PREFIX \o n)}

\* C22: every attribute field (Desc, Required, Valid, Set, Anchor, Conflicts,
\* Triggers) whose variable has no base field in the header is reported by
\* lint as an orphaned attribute, and the file is not loaded as a layer.
C22_OrphansReported ==
    /\ Linted => \A n \in Orphaned(header) :
                    LintEntry("orphaned_attributes", n) \in lint_result.results
    /\ FileMet /\ Orphaned(header) # {} => lm_result # "loaded"

\* the schema: X-Env-VarPrefix, the ten layer fields, X-Env-Var-<NAME> and
\* its seven suffixes, X-Env-VarRequires / X-Env-VarOptional and their -Valid
Recognized(field_name) ==
    \/ field_name \in SingleFields
    \/ /\ startswith(field_name, VAR_PREFIX)
       /\ From(field_name, Len(VAR_PREFIX)) # <<>>
       /\ ~HasDash(From(field_name, Len(VAR_PREFIX)))
    \/ \E s \in AttributeSuffixes :
          /\ startswith(field_name, VAR_PREFIX) /\ endswith(field_name, s)
          /\ Between(field_name, Len(VAR_PREFIX), Len(s)) # <<>>
          /\ ~HasDash(Between(field_name, Len(VAR_PREFIX), Len(s)))

Unrecognized(raw_metadata) ==
    {f \in Range(raw_metadata) : startswith(f, XEnvPrefix) /\ ~Recognized(f)}

\* C23: every X-Env-* field outside the schema is reported by lint as
\* unsupported, and a file that carries one is not loaded as a layer.
C23_ClosedFieldSet ==
    /\ Linted => \A f \in Unrecognized(header) :
                    LintEntry("unsupported_field", f) \in lint_result.results
    /\ FileMet /\ Unrecognized(header) # {} => lm_result # "loaded"

-----------------------------------------------------------------------------
(***************************************************************************)
(* env_types.py, VariableResolver.resolve() on its own: the build order    *)
(* declares mode and port with any policy, definitions of mode may carry   *)
(* rules that set port, definitions of port a rule that sets mode.         *)
(***************************************************************************)
ModeRuleLists ==
    {<<TriggerRule(c, "port", "9000", p)>> :
        c \in {NoCond, "on"}, p \in {"force", "immediate"}}
    \cup {<<TriggerRule(NoCond, "port", "9000", p),
            TriggerRule(NoCond, "port", "9001", p)>> : p \in {"force", "immediate"}}

PortRuleLists ==
    {<<TriggerRule(c, "mode", "off", "force")>> : c \in {"9000", "2"}}

\* the layer at index p of the build order, with the rules of its
\* definitions of mode and of port
RuledLayer(p, declared, policy, triggering, mode_rules, port_rules) ==
    LET names == SelectSeq(VarNames, LAMBDA n : <<p, n>> \in declared)
    IN  [name |-> LayerNames[p],
         vars |-> [j \in DOMAIN names |->
                     EnvVariable(names[j], DefaultValue(names[j], p), FALSE,
                                 policy[<<p, names[j]>>], "", 0, Unset,
                                 IF <<p, names[j]>> \notin triggering THEN <<>>
                                 ELSE IF names[j] = "mode" THEN mode_rules
                                 ELSE port_rules,
                                 DeclaredConflicts(names[j], p))]]

InitResolve ==
    /\ pc = "resolve"
    /\ \E declared \in {S \in SUBSET Slots : Cardinality(S) <= MaxDefs} :
       \E policy \in [declared -> Policies] :
       \E triggering \in SUBSET declared :
       \E mode_rules \in (IF \E s \in triggering : s[2] = "mode"
                          THEN ModeRuleLists
                          ELSE {<<TriggerRule(NoCond, "port", "9000", "force")>>}) :
       \E port_rules \in (IF \E s \in triggering : s[2] = "port"
                          THEN PortRuleLists
                          ELSE {<<TriggerRule("2", "mode", "off", "force")>>}) :
          layers = [p \in DOMAIN LayerNames |->
                      RuledLayer(p, declared, policy, triggering,
                                 mode_rules, port_rules)]
    /\ env_file = <<>>
    /\ environ0 \in Environments
    /\ environ = environ0
    /\ assignments = <<>>
    /\ env_entry = <<>>
    /\ pass1 = <<>>
    /\ merged_defs = <<>>
    /\ resolved_variables = <<>>
    /\ applied = <<>>
    /\ args_order_out = FALSE
    /\ order_out = [written |-> FALSE, lines |-> <<>>]
    /\ reports = <<>>
    /\ failure = ""
    /\ ManagerIdle
    /\ ResolverIdle
    /\ ParserIdle

\* VariableResolver.resolve(variable_definitions) under os.environ; pass1
\* and merged_defs are its locals `resolved' and `merged_defs'
ResolveVariables ==
    /\ pc = "resolve"
    /\ \E variable_definitions \in {_collect_variable_definitions(layers)} :
          /\ pass1' = _resolve_pass(variable_definitions, environ)
          /\ merged_defs' = MergedDefinitions(variable_definitions, environ)
          /\ resolved_variables' = VariableResolver_resolve(variable_definitions, environ)
    /\ env_entry' = environ
    /\ pc' = "resolved"
    /\ UNCHANGED <<layers, env_file, environ0, environ, assignments, applied,
                   args_order_out, order_out, reports, failure>>
    /\ UNCHANGED <<manager_vars, resolver_vars, parser_vars>>

NextResolve == ResolveVariables

SpecResolve == InitResolve /\ [][NextResolve]_vars

-----------------------------------------------------------------------------
(***************************************************************************)
(* Properties of VariableResolver.resolve(), stated after it returned.     *)
(***************************************************************************)
Resolved == pc = "resolved"

\* the definitions of `name' that resolve() added to those of the layers
InjectedOf(name) ==
    SubSeq(DefsOf(merged_defs, name),
           Len(DefsOf(_collect_variable_definitions(layers), name)) + 1,
           Len(DefsOf(merged_defs, name)))

\* the definition comes from a rule whose condition the pass-1 value of
\* its variable meets
FromPass1(d) ==
    \E e \in Range(pass1) :
    \E rule \in Range(FiringRules(e[2], env_entry)) :
        /\ rule.target = d.name
        /\ rule.value = d.value
        /\ rule.policy = d.set_policy
        /\ d.position = e[2].position + 1

\* a rule of `name' whose condition only the final value of `name' meets,
\* that value being one that a trigger injected
Cascading(name, rule) ==
    /\ DictHas(resolved_variables, name)
    /\ DictHas(pass1, name)
    /\ rule \in Range(DictGet(resolved_variables, name).triggers)
    /\ rule.condition # NoCond
    /\ EffectiveValue(DictGet(resolved_variables, name), env_entry) = rule.condition
    /\ EffectiveValue(DictGet(pass1, name), env_entry) # rule.condition
    /\ \E d \in Range(InjectedOf(name)) :
          d.value = DictGet(resolved_variables, name).value

\* C24: resolve() performs exactly one trigger-injection pass: every
\* injected definition comes from a rule that fires on the Pass-1 values
\* and carries no triggers, the result is Pass 1 re-run on the extended
\* definitions, and a rule whose condition becomes true only through an
\* injected value produces no definition.
C24_OneInjectionPass ==
    Resolved =>
        /\ \A name \in EnvNames :
           \A d \in Range(InjectedOf(name)) :
               d.triggers = <<>> /\ FromPass1(d)
        /\ resolved_variables = _resolve_pass(merged_defs, env_entry)
        /\ \A name \in EnvNames :
           \A rules \in PortRuleLists \cup ModeRuleLists :
           \A r \in Range(rules) :
               Cascading(name, r) =>
                   ~ \E d \in Range(InjectedOf(r.target)) : d.value = r.value

\* port is declared with 'when=9000 set mode=off', a rule of mode forces
\* port to 9000, and mode keeps the value it had
C24_Witness ==
    /\ Resolved
    /\ Cascading("port", TriggerRule("9000", "mode", "off", "force"))
    /\ DictGet(resolved_variables, "port").value = "9000"
    /\ DictGet(resolved_variables, "mode").value # "off"
    /\ InjectedOf("mode") = <<>>
    /\ InjectedOf("port") # <<>>


\* the lists that hold the elements of `s' in another order
Permuted(s) ==
    {[i \in DOMAIN s |-> s[f[i]]] :
        f \in {g \in [DOMAIN s -> DOMAIN s] :
                  \A i, j \in DOMAIN s : i # j => g[i] # g[j]}}

SameSelection(v, w) ==
    /\ v.value = w.value
    /\ v.set_policy = w.set_policy
    /\ v.source_layer = w.source_layer
    /\ v.position = w.position
    /\ v.triggers = w.triggers

\* C27: Pass-1 selection depends only on positions, policies and the
\* environment: for every name, every list that holds the definitions of
\* the last pass in another order, the injected ones that share a position
\* included, selects the same definition (value, policy, source layer,
\* position and trigger list) as the pass did.
C27_SelectionDeterministic ==
    Resolved =>
        \A name \in EnvNames :
            DefsOf(merged_defs, name) # <<>> =>
                \A other \in Permuted(DefsOf(merged_defs, name)) :
                    SameSelection(ResolveEntry(name, other, env_entry),
                                  ResolveEntry(name, DefsOf(merged_defs, name), env_entry))


\* the definitions of `name' that the layers of the build order give
LayerDefsOf(name) == DefsOf(_collect_variable_definitions(layers), name)

\* the source position p of an injected definition
SourcePosition(d) == d.position - 1

\* C28: an injected definition competes at p + 0.01, p being the position
\* of its source's Pass-1 entry, which is the position of no layer; with
\* policy force it is selected rather than a force definition of a layer
\* at a position <= p and not selected when a layer has a force
\* definition at a position > p; with policy immediate, the target not in
\* the environment and no force definition, it is not selected when a
\* layer has an immediate definition at a position <= p and is selected
\* rather than an immediate definition of a layer at a position > p.
C28_InjectedPosition ==
    Resolved =>
        \A name \in EnvNames :
        \A d \in Range(InjectedOf(name)) :
            /\ FromPass1(d)
            /\ \A p \in DOMAIN layers : d.position # (p - 1) * PosScale
            /\ \A l \in Range(LayerDefsOf(name)) :
                  /\ d.position # l.position
                  /\ (d.set_policy = "force" /\ l.set_policy = "force") =>
                        /\ DictHas(resolved_variables, name)
                        /\ DictGet(resolved_variables, name).position #
                              (IF l.position <= SourcePosition(d)
                               THEN l.position ELSE d.position)
                  /\ ( /\ d.set_policy = "immediate"
                       /\ l.set_policy = "immediate"
                       /\ env_entry[name] = Unset
                       /\ ~ HasPolicy(DefsOf(merged_defs, name), "force") ) =>
                        /\ DictHas(resolved_variables, name)
                        /\ DictGet(resolved_variables, name).position #
                              (IF l.position <= SourcePosition(d)
                               THEN d.position ELSE l.position)

\* layer net declares mode with a rule that forces port, layer base (before
\* it) declares port with policy force: the injected definition is selected
C28_Witness ==
    /\ Resolved
    /\ \E d \in Range(InjectedOf("port")) :
          /\ d.set_policy = "force"
          /\ SourcePosition(d) = PosScale
          /\ DictGet(resolved_variables, "port").position = d.position
          /\ DictGet(resolved_variables, "port").value = d.value
    /\ \E l \in Range(LayerDefsOf("port")) :
          l.set_policy = "force" /\ l.position = 0

C28_ForceLoses ==
    /\ Resolved
    /\ \E d \in Range(InjectedOf("port")) :
          /\ d.set_policy = "force"
          /\ \E l \in Range(LayerDefsOf("port")) :
                /\ l.set_policy = "force" /\ l.position > d.position
                /\ DictGet(resolved_variables, "port").position = l.position

C28_ImmediateLoses ==
    /\ Resolved
    /\ \E d \in Range(InjectedOf("port")) :
          /\ d.set_policy = "immediate"
          /\ \E l \in Range(LayerDefsOf("port")) :
                /\ l.set_policy = "immediate" /\ l.position < d.position
                /\ DictGet(resolved_variables, "port").position = l.position

C28_ImmediateWins ==
    /\ Resolved
    /\ \E d \in Range(InjectedOf("port")) :
          /\ d.set_policy = "immediate"
          /\ \E l \in Range(LayerDefsOf("port")) :
                /\ l.set_policy = "immediate" /\ l.position > d.position
                /\ DictGet(resolved_variables, "port").position = d.position


-----------------------------------------------------------------------------
(***************************************************************************)
(* Conflict validation on the whole pipeline (SpecMain).                   *)
(***************************************************************************)
\* the definitions of a name in the build order
DefinitionsOf(name) == DefsOf(_collect_variable_definitions(layers), name)

\* the value of the name comes from the environment the layers were
\* applied to: it was set there and no definition has policy force
FromEnvironment(name) ==
    /\ DefinitionsOf(name) # <<>>
    /\ env_entry[name] # Unset
    /\ ~ HasPolicy(DefinitionsOf(name), "force")

\* C25: when the value of V comes from the pre-existing environment, the
\* conflict specs that _validate_resolved applies to V are the
\* deduplicated union of the conflict specs of all definitions of V.
C25_ConflictsMerged ==
    Validated =>
        \A name \in {"A", "B"} :
            FromEnvironment(name) =>
                Winner(name).conflicts = MergedConflicts(DefinitionsOf(name))

\* the [FAIL] lines that name the pair
PairReports(name, other) ==
    {i \in DOMAIN reports :
        /\ reports[i].kind = "conflict"
        /\ {reports[i].var, reports[i].other} = {name, other}}

\* a spec with a comparator whose pair also has an unconditional conflict
Suppressed(name, c) ==
    /\ c.op # ""
    /\ {name, Str(c.name)} \in UnconditionalPairs(Selected(layers, environ))

\* C26: a spec with a comparator declared by V on N, the pair {V, N}
\* having an unconditional conflict too, is not reported on its own: each
\* of its violations is reported, and the pair is reported once.
C26_SuppressedReportedOnce ==
    Validated =>
        \A name \in {"A", "B"} : \A c \in SpecsOf(name) :
            Suppressed(name, c) =>
                /\ SpecViolated(name, c) => Reported(name, Str(c.name))
                /\ Cardinality(PairReports(name, Str(c.name))) <= 1

\* no layer of the build order declares the name
Undeclared(name) == DefinitionsOf(name) = <<>>

\* C29: when V is effectively set and declares an unconditional conflict
\* on N, and N, which no layer declares, has a non-empty value in the
\* final environment (from a trigger or from the caller), the conflict of
\* V and N is reported.
C29_UndeclaredConflictReported ==
    Validated =>
        \A name \in {"A", "B"} : \A c \in SpecsOf(name) :
            ( /\ c.op = "" /\ c.when = <<>>
              /\ EffectivelySet(name)
              /\ Undeclared(Str(c.name))
              /\ Current(environ, Str(c.name)) \notin {Unset, ""} ) =>
                Reported(name, Str(c.name))


-----------------------------------------------------------------------------
(***************************************************************************)
(* env_resolver.py, LazyEnvResolver.set between calls of resolve: a        *)
(* resolver over the names A, B and C, with no anchors, whose caller sets  *)
(* values and resolves names in any order.                                 *)
(***************************************************************************)
SetValues == {<<"v">>, <<"w">>, Ref(NameB), Ref(NameC)}

SetAssignments ==
    { <<(<<NameA, Ref(NameB)>>), (<<NameB, <<"v">>>>)>>,
      <<(<<NameA, <<"v">>>>)>>,
      <<(<<NameB, Ref(NameC)>>), (<<NameC, <<"v">>>>)>> }

\* self._cache.pop(name, None)
DictPop(d, name) == SelectSeq(d, LAMBDA e : e[1] # name)

\* LazyEnvResolver.set
LazyEnvResolver_set(self, name, value) ==
    [self EXCEPT !.assignments = DictPut(@, name, value),
                 !.cache = DictPop(@, name)]

InitSet ==
    /\ PipelineIdle
    /\ ManagerIdle
    /\ lr_assignments \in SetAssignments
    /\ external_context = <<(<<NameX, <<"w">>>>)>>
    /\ anchors = <<>>
    /\ preserve_anchors = FALSE
    /\ cache = <<>>
    /\ lr_pc = "ready"
    /\ lr_call = <<>>
    /\ lr_result = Returned(<<>>)
    /\ env_out = [written |-> FALSE, lines |-> <<>>]
    /\ FileIdle
    /\ ParserIdle

\* a caller sets one name
SetValue ==
    /\ lr_pc = "ready"
    /\ \E name \in {NameA, NameB, NameC} :
       \E value \in SetValues :
       \E self \in {LazyEnvResolver_set(Self, name, value)} :
          /\ lr_assignments' = self.assignments
          /\ cache' = self.cache
          /\ lr_call' = <<"set", name, value>>
          /\ lr_result' = Returned(<<>>)
    /\ UNCHANGED <<external_context, anchors, preserve_anchors, lr_pc, env_out>>
    /\ UNCHANGED <<pipeline_vars, manager_vars, file_vars, parser_vars>>

NextSet == SetValue \/ Resolve

SpecSet == InitSet /\ [][NextSet]_vars

-----------------------------------------------------------------------------
(***************************************************************************)
(* Claims about the resolver's memo.                                       *)
(***************************************************************************)
\* resolve(name) by a resolver with the same assignments and nothing
\* memoized
FreshResolve(name) ==
    Outcome(LazyEnvResolver_resolve([Self EXCEPT !.cache = <<>>], name, <<>>))

\* C30: memoized results never go stale: whatever calls of set and resolve
\* came before, resolve(x) of an assigned x returns the expansion of x's
\* raw value under the current assignments.
C30_MemoNeverStale ==
    (Len(lr_call) = 2 /\ lr_call[1] = "resolve" /\ lr_call[2] \in Assigned) =>
        lr_result = FreshResolve(lr_call[2])


=============================================================================
